---- MODULE Spec2Model ----
(***************************************************************************)
(* State-machine model of the bitcoin-pay payment-observation engine:      *)
(* the BitcoinWatcher (watcher/zmq.ts), the core verbs of createBitcoinPay *)
(* (pay.ts) and the storage contract they run on (prisma adapter).         *)
(*                                                                         *)
(* Every handler is an async function.  Its code between two awaits runs   *)
(* without interruption; at an await other handlers may run.  A handler    *)
(* in flight is a task record (its position pc and its locals); Step runs  *)
(* one awaited operation of a task together with the synchronous code up   *)
(* to the next await.  Run applies Step until the handler returns: that is *)
(* the handler called alone.  Spec runs handlers one at a time (Run);      *)
(* SpecConc interleaves the steps of several handlers.                     *)
(***************************************************************************)
EXTENDS Integers, Sequences, FiniteSets, TLC

\* ------------------------------------------------------------ bounds
NumIntents == 2          \* payment intents that createPaymentIntent creates
MaxConfs == 2            \* highest confirmation count the node reports
MaxRequiredConfs == 2    \* highest configured `confirmations`
MaxReorgs == 1           \* reorganisations of the chain
MaxTasks == 2            \* handlers in flight at once
MaxStarted == 3          \* interleaved handlers started in one behaviour

TicksPerSecond == 2      \* clock ticks in a second (Date.now() counts 1000)
SecondsPerHour == 1      \* seconds in an hour of ttlHours (the code counts 3600)
MaxClock == 4            \* last tick of the clock
MaxTtl == 2              \* longest ttlSeconds handed to createMagicLinkToken
MaxTtlHours == 1         \* longest ttlHours handed to createMagicLink
NumNonces == 2           \* values nanoid() draws from
BlockLen == 2            \* bytes in a block of the HMAC hash (SHA-256 has 64)
MaxTokens == 2           \* rows of magic_link_tokens

\* `data.ttlHours || 24`
DefaultTtlHours == 24

MaxInFlight == 2         \* Inngest events sent and not yet handled
MaxVouts == 2            \* outputs of a transaction the Mempool API returns
MaxTxs == 2              \* transactions the Mempool API returns for an address

\* `confirmations: config.confirmations || 1` of createInngestIntegration
InngestConfirmations == 1

\* `amountSats / 100_000_000`
SatsPerBtc == 100000000

\* `.toFixed(8)`
Decimals == 8

\* amountSats of every intent (an input of createPaymentIntent)
AmountSats == 2

IntentIds == 1..NumIntents
\* The addresses the descriptor derives at the first NumIntents indices
\* (index n derives address n+1).  A deposit address row has its position in
\* the table as its id.
Addresses == 1..NumIntents
TxIds == {1}
Nonces == 1..NumNonces

\* a byte of a secret: the zero byte, or one that is not zero
Bytes == {0, 1}

\* options.secret as the bytes Buffer.from(secret) gives: the non-empty byte
\* strings no longer than a block of the hash
Secrets ==
  UNION {[1..n -> Bytes] : n \in 1..BlockLen}

\* The transactions the node may relay.  Transaction 1 has two outputs: the
\* first under-pays deposit address 1 by one satoshi, the second pays the
\* full amount to deposit address 2.
TxVout(txid) ==
  << [address |-> 1, value |-> AmountSats - 1],
     [address |-> 2, value |-> AmountSats] >>

VARIABLES
  intents,             \* payment_intents table
  addresses,           \* deposit_addresses table: row k |-> intentId (0 = null)
  observations,        \* tx_observations table, rows in insertion order
  watchedAddresses,    \* BitcoinWatcher.watchedAddresses
  addressToIntentMap,  \* BitcoinWatcher.addressToIntentMap (0 = no entry)
  isRunning,           \* BitcoinWatcher.isRunning
  requiredConfs,       \* BitcoinWatcher.requiredConfs (options.confirmations)
  onProcessing,        \* calls of the onProcessing callback, per intent
  onConfirmed,         \* calls of the onConfirmed callback, per intent
  onReorg,             \* calls of the onReorg callback, per intent
  onExpired,           \* calls of the onExpired callback, per intent
  toConfirmed,         \* stored status changes from another status to confirmed
  chain,               \* the node: txid |-> confirmations, -1 = unknown tx
  reorgs,              \* reorganisations so far
  tasks,               \* handlers in flight, each at an await
  started,             \* interleaved handlers started so far
  adapter,             \* the storage adapter in use: "prisma" or "drizzle"
  derivationIndex,     \* deposit_addresses table: row k |-> derivationIndex
  tokens,              \* magic_link_tokens table, rows in insertion order
  secret,              \* options.secret
  clock,               \* Date.now(), in ticks
  minted,              \* the last createMagicLinkToken call and its result
  verified,            \* the verifyMagicLinkToken call of this tick, its result
  throwing,            \* the event callbacks registered throw when called
  pollInterval,        \* BitcoinWatcher.pollInterval: the interval timers alive
  zmqIsRunning,        \* ZMQWatcher.isRunning
  uri,                 \* the last createBIP21URI call and its result
  inngestEvents,       \* Inngest events sent and not yet handled, as a bag
  emittedConfirmed,    \* bitcoin/payment.confirmed events sent, per payment
  response,            \* the handler's last Response: status and error
  paymentStatus,       \* the last checkPaymentStatus call and its result
  derived,             \* the deriveAddress calls made so far and their results
  rpc,                 \* the Bitcoin node: it answers RPC calls (up), and the
                       \* outages it has had
  failedTx,            \* the transactions onNewTransaction logged as failed
  today,               \* the date, in days
  subscriptions,       \* the subscription rows, by id
  intentSubscription,  \* the subscriptionId column of the payment intents
  subscriptionEvents   \* the bitcoin/subscription.* events sent

vars == << intents, addresses, observations, watchedAddresses,
           addressToIntentMap, isRunning, requiredConfs, rpc, failedTx,
           onProcessing, onConfirmed, onReorg, onExpired, toConfirmed, chain, reorgs,
           tasks, started, adapter, derivationIndex, tokens, secret, clock,
           minted, verified, throwing, pollInterval, zmqIsRunning, uri,
           inngestEvents, emittedConfirmed, response, paymentStatus,
           derived, today, subscriptions, intentSubscription,
           subscriptionEvents >>

\* the magic-link inputs that the watcher and the address verbs never touch
linkVars == << secret, clock, minted, verified >>

\* the subscriptions and their renewal job
subscriptionVars ==
  << today, subscriptions, intentSubscription, subscriptionEvents >>

\* the calls of the pure functions
pureVars == << uri, paymentStatus, derived >>

\* the watcher's timer and sockets
timerVars == << pollInterval, zmqIsRunning >>

\* the state of the Inngest service
inngestVars == << inngestEvents, emittedConfirmed >>

\* ------------------------------------------------------------ records
NoIntent ==
  [status |-> "none", confirmedAt |-> FALSE, addressId |-> 0,
   amountSats |-> 0, requiredConfs |-> 0, pastExpiry |-> FALSE]

NoTask ==
  [kind |-> "none", pc |-> "done", tx |-> 0, confs |-> 0, n |-> 0, iid |-> 0,
   oid |-> 0, old |-> 0, aid |-> 0, ret |-> "none", list |-> << >>, idx |-> 0,
   token |-> << >>, nonce |-> 0, ttlHours |-> 0, socket |-> "none"]

\* no createMagicLinkToken call yet (token << >>), no verifyMagicLinkToken call
\* yet (at = -1)
NoMint ==
  [intentId |-> 0, nonce |-> 0, secret |-> << >>, ttlSeconds |-> 0, at |-> -1,
   token |-> << >>]

\* no request answered yet
NoResponse == [status |-> 0, error |-> "none"]

\* no createBIP21URI call yet (amountSats -1)
NoUri ==
  [address |-> << >>, amountSats |-> -1, label |-> << >>, message |-> << >>,
   text |-> << >>]

\* no checkPaymentStatus call yet
NoStatus ==
  [txs |-> << >>, address |-> 0, expectedAmount |-> 0,
   result |-> [received |-> 0, txid |-> 0, confirmations |-> 0,
               inMempool |-> FALSE, confirmed |-> FALSE]]

\* the Inngest events: name and data (paymentId, and for a payment seen its
\* txid and, once confirmed, its confirmations)
InngestEvents ==
  [name : {"bitcoin/payment.check", "bitcoin/payment.expired"},
   paymentId : IntentIds, txid : {0}, confirmations : {0}]
    \cup [name : {"bitcoin/payment.mempool"},
          paymentId : IntentIds, txid : TxIds, confirmations : {0}]
    \cup [name : {"bitcoin/payment.confirmed"},
          paymentId : IntentIds, txid : TxIds, confirmations : 1..MaxConfs]

NoVerify ==
  [secret |-> << >>, at |-> -1,
   payload |-> [intentId |-> 0, nonce |-> 0, iat |-> -1, exp |-> -1]]

\* Everything a handler reads or writes, as one record.
World ==
  [intents |-> intents, addresses |-> addresses, observations |-> observations,
   watchedAddresses |-> watchedAddresses,
   addressToIntentMap |-> addressToIntentMap,
   requiredConfs |-> requiredConfs,
   onProcessing |-> onProcessing, onConfirmed |-> onConfirmed,
   onReorg |-> onReorg, onExpired |-> onExpired, toConfirmed |-> toConfirmed,
   chain |-> chain, adapter |-> adapter, derivationIndex |-> derivationIndex,
   tokens |-> tokens, secret |-> secret, clock |-> clock, returned |-> 0,
   error |-> "none", response |-> NoResponse, throwing |-> throwing, inngestEvents |-> inngestEvents,
   emittedConfirmed |-> emittedConfirmed, rpcUp |-> rpc.up,
   failedTx |-> failedTx]

R(w, t) == [w |-> w, t |-> t]

Finish(w, t) == R(w, NoTask)

\* ------------------------------------------------------------ storage
getPaymentIntent(w, id) == w.intents[id]

IntentExists(w, id) == id \in IntentIds /\ w.intents[id].status # "none"

\* findFirst({txid, vout}): the first matching row, 0 when there is none
getTxObservationByTxidVout(w, txid, vout) ==
  LET hits == {k \in 1..Len(w.observations) :
                 w.observations[k].txid = txid /\ w.observations[k].vout = vout}
  IN IF hits = {} THEN 0 ELSE CHOOSE k \in hits : \A j \in hits : k <= j

\* deriveAddress(parsedDescriptor, index).address: one address per index
deriveAddress(index) == index + 1

\* the address column of deposit address row id
addressOf(w, id) == deriveAddress(w.derivationIndex[id])

\* findUnique({address}): the row, 0 when there is none
getDepositAddressByAddress(w, address) ==
  LET hits == {k \in 1..Len(w.addresses) : addressOf(w, k) = address}
  IN IF hits = {} THEN 0 ELSE CHOOSE k \in hits : TRUE

\* findUnique({id}) on deposit addresses
getDepositAddress(w, id) ==
  IF id \in 1..Len(w.addresses) THEN id ELSE 0


SetObs(w, k, confirmations, status) ==
  [w EXCEPT !.observations[k].confirmations = confirmations,
            !.observations[k].status = status]

ObsStatusFor(w, confirmations) ==
  IF confirmations >= w.requiredConfs THEN "confirmed" ELSE "mempool"

\* ------------------------------------------------------------ processTx
\* scanForPayments: the head of `for (const utxo of utxos)`
ScanLoop(w, t, k) ==
  IF k > Len(t.list) THEN Finish(w, t)
  ELSE R(w, [t EXCEPT !.pc = "sfp_getRawTransaction", !.idx = k])

\* processTx returns to its caller: onNewTransaction ends, scanForPayments
\* goes on with its next utxo
ProcessTxReturn(w, t) ==
  IF t.kind = "scanForPayments" THEN ScanLoop(w, t, t.idx + 1)
  ELSE Finish(w, t)

\* the first output at or after n that pays a watched address with an entry
\* in addressToIntentMap (the two `continue`s of the loop head); 0 if none
RECURSIVE NextWatchedVout(_, _, _)
NextWatchedVout(w, txid, n) ==
  IF n > Len(TxVout(txid)) THEN 0
  ELSE LET address == TxVout(txid)[n].address IN
       IF address \in w.watchedAddresses /\ w.addressToIntentMap[address] # 0
       THEN n
       ELSE NextWatchedVout(w, txid, n + 1)

\* `for (const vout of tx.vout)` from output n on, up to the first await
ProcessTxLoop(w, t, n) ==
  LET m == NextWatchedVout(w, t.tx, n) IN
  IF m = 0 THEN ProcessTxReturn(w, t)
  ELSE R(w, [t EXCEPT !.pc = "ptx_getTxObservationByTxidVout", !.n = m,
                      !.iid = w.addressToIntentMap[TxVout(t.tx)[m].address]])

\* markIntentConfirmed(intentId, ...) is called: its first await
CallMarkIntentConfirmed(w, t, intentId, ret) ==
  R(w, [t EXCEPT !.pc = "mic_getPaymentIntent", !.iid = intentId, !.ret = ret])

\* await getTxObservationByTxidVout, then `if (existing)`
PtxGetTxObservation(w, t) ==
  LET existing == getTxObservationByTxidVout(w, t.tx, t.n) IN
  IF existing # 0
  THEN IF w.observations[existing].confirmations # t.confs
       THEN R(w, [t EXCEPT !.pc = "ptx_updateTxObservation", !.oid = existing,
                           !.old = w.observations[existing].confirmations])
       ELSE ProcessTxReturn(w, t)
  ELSE R(w, [t EXCEPT !.pc = "ptx_getDepositAddressByAddress"])

\* await updateTxObservation(existing.id, {confirmations}), then the check
\* `confirmations >= requiredConfs && existing.confirmations < requiredConfs`
\* and the `return` that ends processTx
PtxUpdateTxObservation(w, t) ==
  LET w1 == [w EXCEPT !.observations[t.oid].confirmations = t.confs] IN
  IF t.confs >= w.requiredConfs /\ t.old < w.requiredConfs
  THEN CallMarkIntentConfirmed(w1, t, t.iid, "return")
  ELSE ProcessTxReturn(w1, t)

\* await getDepositAddressByAddress(address), `if (!addressRecord) continue`
PtxGetDepositAddress(w, t) ==
  LET addressRecord == getDepositAddressByAddress(w, TxVout(t.tx)[t.n].address)
  IN IF addressRecord = 0 THEN ProcessTxLoop(w, t, t.n + 1)
     ELSE R(w, [t EXCEPT !.pc = "ptx_createTxObservation", !.aid = addressRecord])

\* await createTxObservation({...})
PtxCreateTxObservation(w, t) ==
  LET row == [txid |-> t.tx, vout |-> t.n,
              valueSats |-> TxVout(t.tx)[t.n].value,
              confirmations |-> t.confs, addressId |-> t.aid,
              status |-> ObsStatusFor(w, t.confs)]
  IN R([w EXCEPT !.observations = Append(@, row)],
       [t EXCEPT !.pc = "ptx_getPaymentIntent"])

\* await getPaymentIntent(intentId), then the branch on confirmations
PtxGetPaymentIntent(w, t) ==
  IF ~IntentExists(w, t.iid) THEN ProcessTxLoop(w, t, t.n + 1)
  ELSE IF t.confs = 0
       THEN IF getPaymentIntent(w, t.iid).status = "pending"
            THEN R(w, [t EXCEPT !.pc = "ptx_updatePaymentIntent"])
            ELSE ProcessTxLoop(w, t, t.n + 1)
       ELSE IF t.confs >= w.requiredConfs
            THEN CallMarkIntentConfirmed(w, t, t.iid, "continue")
            ELSE ProcessTxLoop(w, t, t.n + 1)

\* await updatePaymentIntent(intentId, {status: "processing"})
PtxUpdatePaymentIntent(w, t) ==
  R([w EXCEPT !.intents[t.iid].status = "processing"],
    [t EXCEPT !.pc = "ptx_onProcessing"])

\* await eventHandlers.onProcessing, then the next output; a callback that
\* throws makes processTx reject: onNewTransaction catches and logs,
\* scanForPayments rejects in turn
PtxOnProcessing(w, t) ==
  LET w1 == [w EXCEPT !.onProcessing[t.iid] = @ + 1] IN
  IF w.throwing THEN Finish(w1, t)
  ELSE ProcessTxLoop(w1, t, t.n + 1)


\* ------------------------------------------------------------ checkConfirmations
\* the head of `for (const obs of observations)`
CheckLoop(w, t, k) ==
  IF k > Len(t.list) THEN Finish(w, t)
  ELSE R(w, [t EXCEPT !.pc = "cc_getRawTransaction", !.idx = k])

\* ------------------------------------------------------------ markIntentConfirmed
\* markIntentConfirmed returns to the statement after its call
MicReturn(w, t) ==
  IF t.ret = "return" THEN ProcessTxReturn(w, t)
  ELSE IF t.ret = "continue" THEN ProcessTxLoop(w, t, t.n + 1)
  ELSE CheckLoop(w, t, t.idx + 1)

\* await getPaymentIntent, `if (!intent || intent.status === "confirmed") return`
MicGetPaymentIntent(w, t) ==
  IF ~IntentExists(w, t.iid) \/ getPaymentIntent(w, t.iid).status = "confirmed"
  THEN MicReturn(w, t)
  ELSE R(w, [t EXCEPT !.pc = "mic_updatePaymentIntent",
                      !.aid = getPaymentIntent(w, t.iid).addressId])

\* await updatePaymentIntent(intentId, {status: "confirmed", confirmedAt})
MicUpdatePaymentIntent(w, t) ==
  R([w EXCEPT !.intents[t.iid].status = "confirmed",
              !.intents[t.iid].confirmedAt = TRUE,
              !.toConfirmed[t.iid] =
                 IF w.intents[t.iid].status = "confirmed" THEN @ ELSE @ + 1],
    [t EXCEPT !.pc = "mic_onConfirmed"])

\* await eventHandlers.onConfirmed, then `if (intent.addressId)`; a callback
\* that throws makes markIntentConfirmed reject: checkConfirmations catches
\* inside its loop and takes the next observation, processTx rejects in turn
MicOnConfirmed(w, t) ==
  LET w1 == [w EXCEPT !.onConfirmed[t.iid] = @ + 1] IN
  IF w.throwing
  THEN IF t.ret = "checkConfirmations" THEN CheckLoop(w1, t, t.idx + 1)
       ELSE Finish(w1, t)
  ELSE IF t.aid # 0 THEN R(w1, [t EXCEPT !.pc = "mic_getDepositAddress"])
       ELSE MicReturn(w1, t)

\* removeAddress(address): both structures drop the address
removeAddress(w, address) ==
  [w EXCEPT !.watchedAddresses = @ \ {address},
            !.addressToIntentMap[address] = 0]

\* await getDepositAddress(intent.addressId), `if (addr) removeAddress(...)`
MicGetDepositAddress(w, t) ==
  LET addr == getDepositAddress(w, t.aid) IN
  MicReturn(IF addr # 0 THEN removeAddress(w, addressOf(w, addr)) ELSE w, t)

\* ------------------------------------------------------------ checkConfirmations, handleReorg
\* listPendingTxObservations: the rows with status "mempool", oldest first,
\* as the snapshot the loop works on (obs.id and obs.confirmations)
listPendingTxObservations(w) ==
  LET F[k \in 0..Len(w.observations)] ==
        IF k = 0 THEN << >>
        ELSE IF w.observations[k].status = "mempool"
             THEN Append(F[k - 1], [id |-> k,
                    confirmations |-> w.observations[k].confirmations])
             ELSE F[k - 1]
  IN F[Len(w.observations)]

\* await listPendingTxObservations()
CcListPending(w, t) ==
  CheckLoop(w, [t EXCEPT !.list = listPendingTxObservations(w)], 1)

\* await rpc.getRawTransaction(obs.txid): an unknown transaction makes the
\* node answer "No such mempool or blockchain transaction" and the catch
\* calls handleReorg; otherwise `if (newConfs !== obs.confirmations)`
CcGetRawTransaction(w, t) ==
  LET obs == t.list[t.idx]
      newConfs == w.chain[w.observations[obs.id].txid]
  IN IF ~w.rpcUp THEN CheckLoop(w, t, t.idx + 1)
     ELSE IF newConfs = -1
     THEN R(w, [t EXCEPT !.pc = "hr_updateTxObservation", !.oid = obs.id])
     ELSE IF newConfs # obs.confirmations
          THEN R(w, [t EXCEPT !.pc = "cc_updateTxObservation", !.oid = obs.id,
                              !.confs = newConfs])
          ELSE CheckLoop(w, t, t.idx + 1)

\* await updateTxObservation(obs.id, {confirmations: newConfs, status})
CcUpdateTxObservation(w, t) ==
  R(SetObs(w, t.oid, t.confs, ObsStatusFor(w, t.confs)),
    [t EXCEPT !.pc = "cc_getDepositAddress"])

\* await getDepositAddress(obs.addressId), then
\* `if (address?.intentId && newConfs >= requiredConfs)`
CcGetDepositAddress(w, t) ==
  LET address == getDepositAddress(w, w.observations[t.oid].addressId) IN
  IF address # 0 /\ w.addresses[address] # 0 /\ t.confs >= w.requiredConfs
  THEN CallMarkIntentConfirmed(w, t, w.addresses[address], "checkConfirmations")
  ELSE CheckLoop(w, t, t.idx + 1)

\* handleReorg: await updateTxObservation(obs.id, {status: "mempool", confirmations: 0})
HrUpdateTxObservation(w, t) ==
  R(SetObs(w, t.oid, 0, "mempool"), [t EXCEPT !.pc = "hr_getDepositAddress"])

\* handleReorg: await getDepositAddress(obs.addressId), `if (address?.intentId)`
HrGetDepositAddress(w, t) ==
  LET address == getDepositAddress(w, w.observations[t.oid].addressId) IN
  IF address # 0 /\ w.addresses[address] # 0
  THEN R(w, [t EXCEPT !.pc = "hr_getPaymentIntent", !.iid = w.addresses[address]])
  ELSE CheckLoop(w, t, t.idx + 1)

\* handleReorg: await getPaymentIntent, `if (intent?.status === "confirmed")`
HrGetPaymentIntent(w, t) ==
  IF IntentExists(w, t.iid) /\ getPaymentIntent(w, t.iid).status = "confirmed"
  THEN R(w, [t EXCEPT !.pc = "hr_updatePaymentIntent"])
  ELSE CheckLoop(w, t, t.idx + 1)

\* handleReorg: await updatePaymentIntent({status: "processing", confirmedAt: null})
HrUpdatePaymentIntent(w, t) ==
  R([w EXCEPT !.intents[t.iid].status = "processing",
              !.intents[t.iid].confirmedAt = FALSE],
    [t EXCEPT !.pc = "hr_onReorg"])

\* handleReorg: await eventHandlers.onReorg, then the next observation; a
\* callback that throws leaves the loop for the outer catch of
\* checkConfirmations
HrOnReorg(w, t) ==
  LET w1 == [w EXCEPT !.onReorg[t.iid] = @ + 1] IN
  IF w.throwing THEN Finish(w1, t)
  ELSE CheckLoop(w1, t, t.idx + 1)


\* ------------------------------------------------------------ onNewTransaction, scanForPayments
\* onNewTransaction: await rpc.getRawTransaction(txid, true) inside try/catch,
\* then processTx(tx, 0)
OntGetRawTransaction(w, t) ==
  IF ~w.rpcUp \/ w.chain[t.tx] = -1
  THEN Finish([w EXCEPT !.failedTx = @ \cup {t.tx}], t)
  ELSE ProcessTxLoop(w, [t EXCEPT !.confs = 0], 1)

\* scanForPayments: await getPaymentIntent, `if (!intent?.addressId) return`
SfpGetPaymentIntent(w, t) ==
  IF ~IntentExists(w, t.iid) \/ getPaymentIntent(w, t.iid).addressId = 0
  THEN Finish(w, t)
  ELSE R(w, [t EXCEPT !.pc = "sfp_getDepositAddress",
                      !.aid = getPaymentIntent(w, t.iid).addressId])

\* scanForPayments: await getDepositAddress, `if (!address) return`
SfpGetDepositAddress(w, t) ==
  IF getDepositAddress(w, t.aid) = 0 THEN Finish(w, t)
  ELSE R(w, [t EXCEPT !.pc = "sfp_listUnspent"])

\* rpc.listUnspent(0, 9999999, [address]): the outputs to the address of the
\* transactions the node knows, with their confirmations
listUnspent(w, address) ==
  LET pays(txid) == \E n \in 1..Len(TxVout(txid)) : TxVout(txid)[n].address = address
      one(txid) == IF w.chain[txid] >= 0 /\ pays(txid)
                   THEN << [txid |-> txid, confirmations |-> w.chain[txid]] >>
                   ELSE << >>
  IN one(1)

\* scanForPayments: await rpc.listUnspent
SfpListUnspent(w, t) ==
  IF ~w.rpcUp THEN Finish(w, t) ELSE
  ScanLoop(w, [t EXCEPT !.list = listUnspent(w, addressOf(w, t.aid))], 1)

\* scanForPayments: await rpc.getRawTransaction(utxo.txid, true), then
\* processTx(tx, utxo.confirmations); a throwing call rejects the scan
SfpGetRawTransaction(w, t) ==
  LET utxo == t.list[t.idx] IN
  IF ~w.rpcUp \/ w.chain[utxo.txid] = -1 THEN Finish(w, t)
  ELSE ProcessTxLoop(w, [t EXCEPT !.tx = utxo.txid,
                                  !.confs = utxo.confirmations], 1)

\* ------------------------------------------------------------ expireStaleIntents
\* the head of `for (const intent of pending)` with `intent.expiresAt < now`
\* already applied to the snapshot
ExpireLoop(w, t, k) ==
  IF k > Len(t.list) THEN Finish(w, t)
  ELSE R(w, [t EXCEPT !.pc = "exp_updatePaymentIntent", !.idx = k,
                      !.iid = t.list[k]])

\* the sweep without its `intent.expiresAt < now` test
StalePending_AllPending(w) ==
  LET F[k \in 0..NumIntents] ==
        IF k = 0 THEN << >>
        ELSE IF w.intents[k].status = "pending"
             THEN << k >> \o F[k - 1]
             ELSE F[k - 1]
  IN F[NumIntents]

\* listPaymentIntentsByStatus("pending"), newest first, and of these the ones
\* with expiresAt < now (now is read right after the list returns)
StalePending(w) ==
  LET F[k \in 0..NumIntents] ==
        IF k = 0 THEN << >>
        ELSE IF w.intents[k].status = "pending" /\ w.intents[k].pastExpiry
             THEN << k >> \o F[k - 1]
             ELSE F[k - 1]
  IN F[NumIntents]

\* await listPaymentIntentsByStatus("pending"); const now = new Date()
ExpListPending(w, t) ==
  ExpireLoop(w, [t EXCEPT !.list = StalePending(w)], 1)

\* await updatePaymentIntent(intent.id, {status: "expired"})
ExpUpdatePaymentIntent(w, t) ==
  R([w EXCEPT !.intents[t.iid].status = "expired"],
    [t EXCEPT !.pc = "exp_onExpired"])

\* await events.onExpired({intentId}), then the next intent; a callback that
\* throws makes expireStaleIntents reject
ExpOnExpired(w, t) ==
  LET w1 == [w EXCEPT !.onExpired[t.iid] = @ + 1] IN
  IF w.throwing THEN Finish(w1, t)
  ELSE ExpireLoop(w1, t, t.idx + 1)

\* ------------------------------------------------------------ ensureAssigned
\* `return {intentId, address: depositAddress.address, ...}`
EaReturn(w, t) == Finish([w EXCEPT !.returned = addressOf(w, t.aid)], t)

\* await getPaymentIntent, `if (!intent) throw`, `if (intent.addressId)`
EaGetPaymentIntent(w, t) ==
  IF ~IntentExists(w, t.iid)
  THEN Finish([w EXCEPT !.error = "Payment intent not found"], t)
  ELSE IF getPaymentIntent(w, t.iid).addressId # 0
       THEN R(w, [t EXCEPT !.pc = "ea_getDepositAddress",
                           !.aid = getPaymentIntent(w, t.iid).addressId])
       ELSE R(w, [t EXCEPT !.pc = "ea_getUnassignedAddress"])

\* ensureAssigned without the `if (intent.addressId)` shortcut
EaGetDepositAddress_Reassign(w, t) ==
  R(w, [t EXCEPT !.pc = "ea_getUnassignedAddress"])

\* await getDepositAddress(intent.addressId); with the row found the address
\* is returned as it is
EaGetDepositAddress(w, t) ==
  IF getDepositAddress(w, t.aid) # 0 THEN EaReturn(w, t)
  ELSE R(w, [t EXCEPT !.pc = "ea_getUnassignedAddress"])

\* findFirst({intentId: null}, orderBy derivationIndex asc); 0 if none
getUnassignedAddress(w) ==
  LET free == {k \in 1..Len(w.addresses) : w.addresses[k] = 0} IN
  IF free = {} THEN 0
  ELSE CHOOSE k \in free :
         \A j \in free : w.derivationIndex[k] <= w.derivationIndex[j]

\* await getUnassignedAddress(), `if (!depositAddress)`
EaGetUnassignedAddress(w, t) ==
  LET depositAddress == getUnassignedAddress(w) IN
  IF depositAddress # 0
  THEN R(w, [t EXCEPT !.pc = "ea_assignAddressToIntent", !.aid = depositAddress])
  ELSE R(w, [t EXCEPT !.pc = "ea_getNextDerivationIndex"])

\* getNextDerivationIndex with `?? 0` in place of `?? -1`
getNextDerivationIndex_FromOne(w) ==
  LET used == {w.derivationIndex[k] : k \in 1..Len(w.derivationIndex)} IN
  (IF used = {} THEN 0 ELSE CHOOSE m \in used : \A j \in used : j <= m) + 1

\* aggregate({_max: {derivationIndex}}): `(_max.derivationIndex ?? -1) + 1`
getNextDerivationIndex(w) ==
  LET used == {w.derivationIndex[k] : k \in 1..Len(w.derivationIndex)} IN
  (IF used = {} THEN -1 ELSE CHOOSE m \in used : \A j \in used : j <= m) + 1

\* await getNextDerivationIndex(); deriveAddress(parsedDescriptor, nextIndex)
EaGetNextDerivationIndex(w, t) ==
  R(w, [t EXCEPT !.pc = "ea_createDepositAddress",
                 !.n = getNextDerivationIndex(w)])

\* await createDepositAddress({address, derivationIndex, intentId: null}):
\* the unique index on address rejects a second row of the same address
EaCreateDepositAddress(w, t) ==
  IF getDepositAddressByAddress(w, deriveAddress(t.n)) # 0
  THEN Finish([w EXCEPT !.error = "Unique constraint failed"], t)
  ELSE R([w EXCEPT !.addresses = Append(@, 0),
                   !.derivationIndex = Append(@, t.n)],
         [t EXCEPT !.pc = "ea_assignAddressToIntent",
                   !.aid = Len(w.addresses) + 1])

\* assignAddressToIntent(addressId, intentId) of the Prisma adapter: one
\* transaction that sets the address row's intentId and the intent's addressId
assignAddressToIntent(w, addressId, intentId) ==
  [w EXCEPT !.addresses[addressId] = intentId,
            !.intents[intentId].addressId = addressId]

\* await assignAddressToIntent(depositAddress.id, intentId); the Drizzle
\* adapter awaits its own first update here, the one of the address row
EaAssignAddressToIntent(w, t) ==
  IF w.adapter = "drizzle"
  THEN R([w EXCEPT !.addresses[t.aid] = t.iid],
         [t EXCEPT !.pc = "ea_assignIntentRow"])
  ELSE R(assignAddressToIntent(w, t.aid, t.iid),
         [t EXCEPT !.pc = "ea_updatePaymentIntent"])

\* the Drizzle adapter's second update, the one of the intent row, and its
\* closing select
EaAssignIntentRow(w, t) ==
  R([w EXCEPT !.intents[t.iid].addressId = t.aid],
    [t EXCEPT !.pc = "ea_updatePaymentIntent"])

\* await updatePaymentIntent(intentId, {addressId}), then the result is built
EaUpdatePaymentIntent(w, t) ==
  EaReturn([w EXCEPT !.intents[t.iid].addressId = t.aid], t)

\* ------------------------------------------------------------ magic-link tokens
\* the "." of `${payloadB64}.${signatureB64}`; every other character of a
\* token is a number >= 0
Dot == -1

\* `null`, as verifyMagicLinkToken returns it
NoPayload == [intentId |-> 0, nonce |-> 0, iat |-> -1, exp |-> -1]

\* Math.floor(Date.now() / 1000)
NowSeconds(now) == now \div TicksPerSecond

\* Buffer.from(JSON.stringify(fullPayload)).toString("base64url"): the fields
\* in the order `{...payload, iat, exp}` lists them
stringify(payload) ==
  << payload.intentId, payload.nonce, payload.iat, payload.exp >>

\* JSON.parse(Buffer.from(payloadB64, "base64url").toString("utf8")); on
\* text that is no payload it throws, and the catch returns null
parse(payloadB64) ==
  IF Len(payloadB64) = 4
  THEN [intentId |-> payloadB64[1], nonce |-> payloadB64[2],
        iat |-> payloadB64[3], exp |-> payloadB64[4]]
  ELSE NoPayload

\* the key HMAC works with: the bytes of the secret, zero-padded to the block
\* length of the hash (no secret of Secrets is longer than a block)
hmacKey(sec) ==
  [k \in 1..BlockLen |-> IF k <= Len(sec) THEN sec[k] ELSE 0]

\* hmac(sha256, Buffer.from(secret), Buffer.from(payloadB64)) in base64url: a
\* tag that is different for every pair of key and message
hmac(sec, message) == hmacKey(sec) \o message

\* timingSafeEqual(a, b) with the bytes of one tag compared in order
timingSafeEqual_FirstByte(a, b) ==
  /\ Len(a) = Len(b)
  /\ Len(a) > 0 => a[1] = b[1]

\* timingSafeEqual(a, b): equal lengths, and no byte differs
timingSafeEqual(a, b) ==
  /\ Len(a) = Len(b)
  /\ \A k \in 1..Len(a) : a[k] = b[k]

\* createMagicLinkToken with `exp: now` for `exp: now + ttlSeconds`
createMagicLinkToken_NoTtl(intentId, nonce, sec, ttlSeconds, now) ==
  LET fullPayload == [intentId |-> intentId, nonce |-> nonce,
                      iat |-> NowSeconds(now), exp |-> NowSeconds(now)]
      payloadB64 == stringify(fullPayload)
  IN payloadB64 \o << Dot >> \o hmac(sec, payloadB64)

\* createMagicLinkToken({intentId, nonce}, secret, ttlSeconds) called at
\* Date.now() = now
createMagicLinkToken(intentId, nonce, sec, ttlSeconds, now) ==
  LET fullPayload == [intentId |-> intentId, nonce |-> nonce,
                      iat |-> NowSeconds(now),
                      exp |-> NowSeconds(now) + ttlSeconds]
      payloadB64 == stringify(fullPayload)
      signatureB64 == hmac(sec, payloadB64)
  IN payloadB64 \o << Dot >> \o signatureB64

\* token.split("."): the pieces between the dots
RECURSIVE split(_)
split(token) ==
  LET dots == {k \in 1..Len(token) : token[k] = Dot} IN
  IF dots = {} THEN << token >>
  ELSE LET d == CHOOSE k \in dots : \A j \in dots : k <= j
       IN << SubSeq(token, 1, d - 1) >> \o split(SubSeq(token, d + 1, Len(token)))

\* verifyMagicLinkToken(token, secret) called at Date.now() = now
verifyMagicLinkToken(token, sec, now) ==
  LET parts == split(token)
      payloadB64 == parts[1]
      signatureB64 == parts[2]
  IN IF Len(parts) < 2 THEN NoPayload
     ELSE IF payloadB64 = << >> \/ signatureB64 = << >> THEN NoPayload
     ELSE IF ~timingSafeEqual(hmac(sec, payloadB64), signatureB64) THEN NoPayload
     ELSE IF parse(payloadB64).exp < NowSeconds(now) THEN NoPayload
     ELSE parse(payloadB64)

\* ------------------------------------------------------------ createMagicLink, verifyMagicLink
\* findUnique({token}) on magic_link_tokens: the row's id, 0 when there is none
getMagicLinkToken(w, token) ==
  LET hits == {k \in 1..Len(w.tokens) : w.tokens[k].token = token}
  IN IF hits = {} THEN 0 ELSE CHOOSE k \in hits : TRUE

\* storage.consumeMagicLinkToken(id): update({consumed: true})
consumeMagicLinkToken(w, id) == [w EXCEPT !.tokens[id].consumed = TRUE]

\* createMagicLink({intentId, ttlHours}): the token is built, then
\* await storage.createMagicLinkToken({token, intentId, consumed: false,
\* expiresAt}); the unique index on token rejects a second row of one token
CmlCreateMagicLinkToken(w, t) ==
  LET ttlSeconds ==
        (IF t.ttlHours # 0 THEN t.ttlHours ELSE DefaultTtlHours) * SecondsPerHour
      token == createMagicLinkToken(t.iid, t.nonce, w.secret, ttlSeconds, w.clock)
      row == [token |-> token, intentId |-> t.iid, consumed |-> FALSE,
              consumedAt |-> -1,
              expiresAt |-> w.clock + ttlSeconds * TicksPerSecond]
  IN IF getMagicLinkToken(w, token) # 0
     THEN Finish([w EXCEPT !.error = "Unique constraint failed"], t)
     ELSE Finish([w EXCEPT !.tokens = Append(@, row)], t)

\* verifyMagicLink({token}): verifyMagicLinkToken(token, secret),
\* `if (!payload) throw`
VmlVerifyMagicLinkToken(w, t) ==
  LET payload == verifyMagicLinkToken(t.token, w.secret, w.clock) IN
  IF payload = NoPayload
  THEN Finish([w EXCEPT !.error = "Invalid or expired token"], t)
  ELSE R(w, [t EXCEPT !.pc = "vml_getMagicLinkToken", !.iid = payload.intentId])

\* verifyMagicLink that turns a consumed token down
VmlGetMagicLinkToken_OneTime(w, t) ==
  LET tokenRecord == getMagicLinkToken(w, t.token) IN
  IF tokenRecord = 0 THEN Finish([w EXCEPT !.error = "Token not found"], t)
  ELSE IF w.tokens[tokenRecord].expiresAt < w.clock
       THEN Finish([w EXCEPT !.error = "Token expired"], t)
  ELSE IF ~w.tokens[tokenRecord].consumed
       THEN R(w, [t EXCEPT !.pc = "vml_consumeMagicLinkToken",
                           !.oid = tokenRecord])
       ELSE Finish([w EXCEPT !.error = "Token already used"], t)

\* await getMagicLinkToken(token), `if (!tokenRecord) throw`,
\* `if (tokenRecord.expiresAt < new Date()) throw`, `if (!tokenRecord.consumed)`
VmlGetMagicLinkToken(w, t) ==
  LET tokenRecord == getMagicLinkToken(w, t.token) IN
  IF tokenRecord = 0 THEN Finish([w EXCEPT !.error = "Token not found"], t)
  ELSE IF w.tokens[tokenRecord].expiresAt < w.clock
       THEN Finish([w EXCEPT !.error = "Token expired"], t)
  ELSE IF ~w.tokens[tokenRecord].consumed
       THEN R(w, [t EXCEPT !.pc = "vml_consumeMagicLinkToken",
                           !.oid = tokenRecord])
       ELSE Finish([w EXCEPT !.returned = t.iid], t)

\* await consumeMagicLinkToken(tokenRecord.id);
\* `return {intentId: payload.intentId}`
VmlConsumeMagicLinkToken(w, t) ==
  Finish([consumeMagicLinkToken(w, t.oid) EXCEPT !.returned = t.iid], t)

\* ------------------------------------------------------------ steps
\* One awaited operation of handler t and the code up to its next await.
Step(w, t) ==
  CASE t.pc = "ptx_getTxObservationByTxidVout" -> PtxGetTxObservation(w, t)
    [] t.pc = "ptx_updateTxObservation" -> PtxUpdateTxObservation(w, t)
    [] t.pc = "ptx_getDepositAddressByAddress" -> PtxGetDepositAddress(w, t)
    [] t.pc = "ptx_createTxObservation" -> PtxCreateTxObservation(w, t)
    [] t.pc = "ptx_getPaymentIntent" -> PtxGetPaymentIntent(w, t)
    [] t.pc = "ptx_updatePaymentIntent" -> PtxUpdatePaymentIntent(w, t)
    [] t.pc = "ptx_onProcessing" -> PtxOnProcessing(w, t)
    [] t.pc = "mic_getPaymentIntent" -> MicGetPaymentIntent(w, t)
    [] t.pc = "mic_updatePaymentIntent" -> MicUpdatePaymentIntent(w, t)
    [] t.pc = "mic_onConfirmed" -> MicOnConfirmed(w, t)
    [] t.pc = "mic_getDepositAddress" -> MicGetDepositAddress(w, t)
    [] t.pc = "cc_listPendingTxObservations" -> CcListPending(w, t)
    [] t.pc = "cc_getRawTransaction" -> CcGetRawTransaction(w, t)
    [] t.pc = "cc_updateTxObservation" -> CcUpdateTxObservation(w, t)
    [] t.pc = "cc_getDepositAddress" -> CcGetDepositAddress(w, t)
    [] t.pc = "hr_updateTxObservation" -> HrUpdateTxObservation(w, t)
    [] t.pc = "hr_getDepositAddress" -> HrGetDepositAddress(w, t)
    [] t.pc = "hr_getPaymentIntent" -> HrGetPaymentIntent(w, t)
    [] t.pc = "hr_updatePaymentIntent" -> HrUpdatePaymentIntent(w, t)
    [] t.pc = "hr_onReorg" -> HrOnReorg(w, t)
    [] t.pc = "ont_getRawTransaction" -> OntGetRawTransaction(w, t)
    [] t.pc = "sfp_getPaymentIntent" -> SfpGetPaymentIntent(w, t)
    [] t.pc = "sfp_getDepositAddress" -> SfpGetDepositAddress(w, t)
    [] t.pc = "sfp_listUnspent" -> SfpListUnspent(w, t)
    [] t.pc = "sfp_getRawTransaction" -> SfpGetRawTransaction(w, t)
    [] t.pc = "exp_listPaymentIntentsByStatus" -> ExpListPending(w, t)
    [] t.pc = "exp_updatePaymentIntent" -> ExpUpdatePaymentIntent(w, t)
    [] t.pc = "exp_onExpired" -> ExpOnExpired(w, t)
    [] t.pc = "ea_getPaymentIntent" -> EaGetPaymentIntent(w, t)
    [] t.pc = "ea_getDepositAddress" -> EaGetDepositAddress(w, t)
    [] t.pc = "ea_getUnassignedAddress" -> EaGetUnassignedAddress(w, t)
    [] t.pc = "ea_getNextDerivationIndex" -> EaGetNextDerivationIndex(w, t)
    [] t.pc = "ea_createDepositAddress" -> EaCreateDepositAddress(w, t)
    [] t.pc = "ea_assignAddressToIntent" -> EaAssignAddressToIntent(w, t)
    [] t.pc = "ea_assignIntentRow" -> EaAssignIntentRow(w, t)
    [] t.pc = "cml_createMagicLinkToken" -> CmlCreateMagicLinkToken(w, t)
    [] t.pc = "vml_verifyMagicLinkToken" -> VmlVerifyMagicLinkToken(w, t)
    [] t.pc = "vml_getMagicLinkToken" -> VmlGetMagicLinkToken(w, t)
    [] t.pc = "vml_consumeMagicLinkToken" -> VmlConsumeMagicLinkToken(w, t)
    [] t.pc = "ea_updatePaymentIntent" -> EaUpdatePaymentIntent(w, t)
    [] t.pc = "ptx_begin" -> ProcessTxLoop(w, t, 1)
    [] OTHER -> Finish(w, t)

\* The handler t run alone, from its current position to its return.
RECURSIVE Run(_, _)
Run(w, t) ==
  IF t.pc = "done" THEN w
  ELSE LET r == Step(w, t) IN Run(r.w, r.t)

\* ------------------------------------------------------------ handlers as called
NewTask(kind, pc) == [NoTask EXCEPT !.kind = kind, !.pc = pc]

\* onHashTx -> onNewTransaction(txid)
onNewTransaction(txid) ==
  [NewTask("onNewTransaction", "ont_getRawTransaction") EXCEPT !.tx = txid]

\* onHashBlock -> onNewBlock(), and the poll timer: checkConfirmations()
checkConfirmations ==
  NewTask("checkConfirmations", "cc_listPendingTxObservations")

scanForPayments(intentId) ==
  [NewTask("scanForPayments", "sfp_getPaymentIntent") EXCEPT !.iid = intentId]

expireStaleIntents ==
  NewTask("expireStaleIntents", "exp_listPaymentIntentsByStatus")

ensureAssigned(intentId) ==
  [NewTask("ensureAssigned", "ea_getPaymentIntent") EXCEPT !.iid = intentId]

createMagicLink(intentId, ttlHours, nonce) ==
  [NewTask("createMagicLink", "cml_createMagicLinkToken") EXCEPT
     !.iid = intentId, !.ttlHours = ttlHours, !.nonce = nonce]

verifyMagicLink(token) ==
  [NewTask("verifyMagicLink", "vml_verifyMagicLinkToken") EXCEPT !.token = token]

\* processTx(tx, confirmations), as called on an already fetched transaction
processTx(txid, confirmations) ==
  [NewTask("processTx", "ptx_begin") EXCEPT !.tx = txid, !.confs = confirmations]


\* ------------------------------------------------------------ the state machine
Adapters == {"prisma", "drizzle"}

\* empty tables, a stopped watcher, nothing in flight
Empty ==
  /\ intents = [i \in IntentIds |-> NoIntent]
  /\ addresses = << >>
  /\ observations = << >>
  /\ watchedAddresses = {}
  /\ addressToIntentMap = [a \in Addresses |-> 0]
  /\ isRunning = FALSE
  /\ requiredConfs \in 1..MaxRequiredConfs
  /\ onProcessing = [i \in IntentIds |-> 0]
  /\ onConfirmed = [i \in IntentIds |-> 0]
  /\ onReorg = [i \in IntentIds |-> 0]
  /\ onExpired = [i \in IntentIds |-> 0]
  /\ toConfirmed = [i \in IntentIds |-> 0]
  /\ chain = [x \in TxIds |-> -1]
  /\ reorgs = 0
  /\ tasks = [s \in 1..MaxTasks |-> NoTask]
  /\ started = 0
  /\ derivationIndex = << >>
  /\ tokens = << >>
  /\ clock = 0
  /\ minted = NoMint
  /\ verified = NoVerify
  /\ pollInterval = 0
  /\ zmqIsRunning = FALSE
  /\ uri = NoUri
  /\ paymentStatus = NoStatus
  /\ derived = << >>
  /\ rpc = [up |-> TRUE, outages |-> 0]
  /\ failedTx = {}
  /\ today = 0
  /\ subscriptions = << >>
  /\ intentSubscription = [i \in IntentIds |-> 0]
  /\ subscriptionEvents = << >>
  /\ response = NoResponse
  /\ inngestEvents = [e \in InngestEvents |-> 0]
  /\ emittedConfirmed = [i \in IntentIds |-> 0]

\* run to completion, a handler makes the same writes under either adapter
Init ==
  /\ Empty
  /\ adapter = "prisma"
  /\ secret = << 1 >>
  /\ throwing = FALSE

\* the variables take the values of world w
Commit(w) ==
  /\ intents' = w.intents
  /\ addresses' = w.addresses
  /\ observations' = w.observations
  /\ watchedAddresses' = w.watchedAddresses
  /\ addressToIntentMap' = w.addressToIntentMap
  /\ onProcessing' = w.onProcessing
  /\ onConfirmed' = w.onConfirmed
  /\ onReorg' = w.onReorg
  /\ onExpired' = w.onExpired
  /\ toConfirmed' = w.toConfirmed
  /\ derivationIndex' = w.derivationIndex
  /\ tokens' = w.tokens
  /\ failedTx' = w.failedTx

\* handler t is called and runs to its return with nothing in between
Call(t) == Commit(Run(World, t))

\* createPaymentIntent: a new intent, pending, without address
CreatePaymentIntent ==
  /\ \E i \in IntentIds, rc \in 0..MaxRequiredConfs :
       /\ intents[i].status = "none"
       /\ \A j \in 1..(i - 1) : intents[j].status # "none"
       /\ intents' = [intents EXCEPT ![i] =
            [status |-> "pending", confirmedAt |-> FALSE, addressId |-> 0,
             amountSats |-> AmountSats,
             requiredConfs |-> IF rc # 0 THEN rc ELSE requiredConfs,
             pastExpiry |-> FALSE]]
  /\ UNCHANGED << addresses, observations, watchedAddresses, addressToIntentMap,
                  isRunning, requiredConfs, subscriptionVars, rpc, failedTx,
                  onProcessing, onConfirmed, onReorg,
                  onExpired, toConfirmed, chain, reorgs, tasks, started,
                  adapter, derivationIndex, tokens, linkVars, throwing, pureVars, response,
                  timerVars, inngestVars >>

\* what a start() call in this state comes to: "running" when
\* BitcoinWatcher.start throws at its isRunning test, "zmq" when zmq.start()
\* throws at its own, "ok" when start() returns
StartOutcome ==
  IF isRunning THEN "running" ELSE IF zmqIsRunning THEN "zmq" ELSE "ok"

\* BitcoinWatcher.start(): `if (isRunning) throw`, loadWatchedAddresses,
\* zmq.start(), startPolling(), isRunning = true
Start ==
  /\ LET assigned == {k \in 1..Len(addresses) : addresses[k] # 0}
         row(a) == CHOOSE k \in assigned : addressOf(World, k) = a
         listed == {addressOf(World, k) : k \in assigned}
     IN IF StartOutcome = "running"
        THEN UNCHANGED << watchedAddresses, addressToIntentMap >>
        ELSE /\ watchedAddresses' = watchedAddresses \cup listed
             /\ addressToIntentMap' = [a \in Addresses |->
                  IF a \in listed THEN addresses[row(a)] ELSE addressToIntentMap[a]]
  /\ IF StartOutcome = "ok"
     THEN /\ zmqIsRunning' = TRUE
          /\ pollInterval' = pollInterval + 1
          /\ isRunning' = TRUE
     ELSE UNCHANGED << zmqIsRunning, pollInterval, isRunning >>
  /\ UNCHANGED << intents, addresses, observations, requiredConfs, subscriptionVars, rpc, failedTx,
                  onProcessing,
                  onConfirmed, onReorg, onExpired, toConfirmed, chain, reorgs, tasks, started,
                  adapter, derivationIndex, tokens, linkVars, throwing, pureVars, response,
                  inngestVars >>

\* stop() without its stopPolling()
Stop_KeepsPolling ==
  /\ IF ~isRunning
     THEN UNCHANGED << watchedAddresses, addressToIntentMap, isRunning,
                       pollInterval, zmqIsRunning >>
     ELSE /\ zmqIsRunning' = FALSE
          /\ UNCHANGED pollInterval
          /\ watchedAddresses' = {}
          /\ addressToIntentMap' = [a \in Addresses |-> 0]
          /\ isRunning' = FALSE
  /\ UNCHANGED << intents, addresses, observations, requiredConfs, subscriptionVars, rpc, failedTx,
                  onProcessing,
                  onConfirmed, onReorg, onExpired, toConfirmed, chain, reorgs, tasks, started,
                  adapter, derivationIndex, tokens, linkVars, throwing, pureVars, response,
                  inngestVars >>

\* BitcoinWatcher.stop(): `if (!isRunning) return`, zmq.stop(), stopPolling(),
\* both structures cleared, isRunning = false
Stop ==
  /\ IF ~isRunning
     THEN UNCHANGED << watchedAddresses, addressToIntentMap, isRunning,
                       pollInterval, zmqIsRunning >>
     ELSE /\ zmqIsRunning' = FALSE
          /\ pollInterval' = IF pollInterval > 0 THEN pollInterval - 1 ELSE 0
          /\ watchedAddresses' = {}
          /\ addressToIntentMap' = [a \in Addresses |-> 0]
          /\ isRunning' = FALSE
  /\ UNCHANGED << intents, addresses, observations, requiredConfs, subscriptionVars, rpc, failedTx,
                  onProcessing,
                  onConfirmed, onReorg, onExpired, toConfirmed, chain, reorgs, tasks, started,
                  adapter, derivationIndex, tokens, linkVars, throwing, pureVars, response,
                  inngestVars >>

\* the node accepts a transaction into its mempool
Broadcast ==
  /\ \E x \in TxIds : chain[x] = -1 /\ chain' = [chain EXCEPT ![x] = 0]
  /\ UNCHANGED << intents, addresses, observations, watchedAddresses,
                  addressToIntentMap, isRunning, requiredConfs, subscriptionVars, rpc, failedTx,
                  onProcessing,
                  onConfirmed, onReorg, onExpired, toConfirmed, reorgs, tasks, started,
                  adapter, derivationIndex, tokens, linkVars, throwing, pureVars, response,
                  timerVars, inngestVars >>

\* a block gives a known transaction one more confirmation
Mine ==
  /\ \E x \in TxIds :
       /\ chain[x] >= 0 /\ chain[x] < MaxConfs
       /\ chain' = [chain EXCEPT ![x] = @ + 1]
  /\ UNCHANGED << intents, addresses, observations, watchedAddresses,
                  addressToIntentMap, isRunning, requiredConfs, subscriptionVars, rpc, failedTx,
                  onProcessing,
                  onConfirmed, onReorg, onExpired, toConfirmed, reorgs, tasks, started,
                  adapter, derivationIndex, tokens, linkVars, throwing, pureVars, response,
                  timerVars, inngestVars >>

\* a reorganisation drops a confirmed transaction: the node no longer knows it
Reorg ==
  /\ reorgs < MaxReorgs
  /\ \E x \in TxIds : chain[x] >= 1 /\ chain' = [chain EXCEPT ![x] = -1]
  /\ reorgs' = reorgs + 1
  /\ UNCHANGED << intents, addresses, observations, watchedAddresses,
                  addressToIntentMap, isRunning, requiredConfs, subscriptionVars, rpc, failedTx,
                  onProcessing,
                  onConfirmed, onReorg, onExpired, toConfirmed, tasks, started,
                  adapter, derivationIndex, tokens, linkVars, throwing, pureVars, response,
                  timerVars, inngestVars >>

\* the clock passes the expiresAt of an intent that is still pending (the
\* only intents whose expiresAt is ever read)
TimePasses ==
  /\ \E i \in IntentIds :
       /\ intents[i].status = "pending" /\ ~intents[i].pastExpiry
       /\ intents' = [intents EXCEPT ![i].pastExpiry = TRUE]
  /\ UNCHANGED << addresses, observations, watchedAddresses, addressToIntentMap,
                  isRunning, requiredConfs, subscriptionVars, rpc, failedTx,
                  onProcessing, onConfirmed, onReorg,
                  onExpired, toConfirmed, chain, reorgs, tasks, started,
                  adapter, derivationIndex, tokens, linkVars, throwing, pureVars, response,
                  timerVars, inngestVars >>

\* a hashtx notification of a transaction the node knows
HashTx ==
  /\ isRunning
  /\ \E x \in TxIds : chain[x] >= 0 /\ Call(onNewTransaction(x))
  /\ UNCHANGED << isRunning, requiredConfs, subscriptionVars, rpc, chain, reorgs, tasks, started,
                  adapter, linkVars, throwing, pureVars, response,
                  timerVars, inngestVars >>

\* a hashblock notification
HashBlock ==
  /\ isRunning
  /\ Call(checkConfirmations)
  /\ UNCHANGED << isRunning, requiredConfs, subscriptionVars, rpc, chain, reorgs, tasks, started,
                  adapter, linkVars, throwing, pureVars, response,
                  timerVars, inngestVars >>

\* the poll timer set by startPolling
PollTick ==
  /\ pollInterval > 0
  /\ Call(checkConfirmations)
  /\ UNCHANGED << isRunning, requiredConfs, subscriptionVars, rpc, chain, reorgs, tasks, started,
                  adapter, linkVars, throwing, pureVars, response,
                  timerVars, inngestVars >>

ScanForPayments ==
  /\ \E i \in IntentIds : Call(scanForPayments(i))
  /\ UNCHANGED << isRunning, requiredConfs, subscriptionVars, rpc, chain, reorgs, tasks, started,
                  adapter, linkVars, throwing, pureVars, response,
                  timerVars, inngestVars >>

ExpireStaleIntents ==
  /\ Call(expireStaleIntents)
  /\ UNCHANGED << isRunning, requiredConfs, subscriptionVars, rpc, chain, reorgs, tasks, started,
                  adapter, linkVars, throwing, pureVars, response,
                  timerVars, inngestVars >>

EnsureAssigned ==
  /\ \E i \in IntentIds : Call(ensureAssigned(i))
  /\ UNCHANGED << isRunning, requiredConfs, subscriptionVars, rpc, chain, reorgs, tasks, started,
                  adapter, linkVars, throwing, pureVars, response,
                  timerVars, inngestVars >>

\* ------------------------------------------------------------ interleaved handlers
\* handler t starts: it takes the lowest free slot and is at its first await
Spawn(t) ==
  /\ \E s \in 1..MaxTasks :
       /\ tasks[s] = NoTask
       /\ \A r \in 1..(s - 1) : tasks[r] # NoTask
       /\ tasks' = [tasks EXCEPT ![s] = t]
  /\ started < MaxStarted
  /\ started' = started + 1
  /\ UNCHANGED << intents, addresses, observations, watchedAddresses,
                  addressToIntentMap, isRunning, requiredConfs, subscriptionVars, rpc, failedTx,
                  onProcessing,
                  onConfirmed, onReorg, onExpired, toConfirmed, chain, reorgs,
                  adapter, derivationIndex, tokens, linkVars, throwing, pureVars, response,
                  timerVars, inngestVars >>

\* the event loop resumes one handler: its awaited operation completes and it
\* runs to its next await
Resume(s) ==
  /\ tasks[s] # NoTask
  /\ LET r == Step(World, tasks[s]) IN
       /\ Commit(r.w)
       /\ tasks' = [tasks EXCEPT ![s] = r.t]
  /\ UNCHANGED << isRunning, requiredConfs, subscriptionVars, rpc, chain, reorgs, started,
                  adapter, linkVars, throwing, pureVars, response,
                  timerVars, inngestVars >>

TaskStep == \E s \in 1..MaxTasks : Resume(s)

\* the socket's `for await` loop is awaiting the handler of an earlier message
Busy(socket) == \E s \in 1..MaxTasks : tasks[s].socket = socket

\* a message read from a socket: its handler is awaited by the socket's loop
FromSocket(t, socket) == [t EXCEPT !.socket = socket]

BeginHashTx ==
  /\ isRunning
  /\ ~Busy("hashtx")
  /\ \E x \in TxIds :
       chain[x] >= 0 /\ Spawn(FromSocket(onNewTransaction(x), "hashtx"))

BeginHashBlock ==
  /\ isRunning
  /\ ~Busy("hashblock")
  /\ Spawn(FromSocket(checkConfirmations, "hashblock"))

BeginPollTick == isRunning /\ Spawn(checkConfirmations)

BeginExpireStaleIntents ==
  /\ \E i \in IntentIds : intents[i].status # "none"
  /\ Spawn(expireStaleIntents)

BeginEnsureAssigned ==
  \E i \in IntentIds : intents[i].status # "none" /\ Spawn(ensureAssigned(i))

\* ------------------------------------------------------------ specifications
\* Spec: the watcher and the core verbs, one handler at a time.
Next ==
  \/ CreatePaymentIntent \/ EnsureAssigned \/ Start \/ Stop
  \/ Broadcast \/ Mine \/ Reorg
  \/ HashTx \/ HashBlock \/ PollTick \/ ScanForPayments

Spec == Init /\ [][Next]_vars

\* SpecSweep: Spec with the clock and the expiry sweep.
NextSweep ==
  \/ CreatePaymentIntent \/ EnsureAssigned \/ Start \/ Stop
  \/ Broadcast \/ Mine \/ Reorg
  \/ HashTx \/ HashBlock \/ PollTick \/ ScanForPayments
  \/ TimePasses \/ ExpireStaleIntents

SpecSweep == Init /\ [][NextSweep]_vars


\* the state after createPaymentIntent and ensureAssigned for every intent and
\* then BitcoinWatcher.start(): all intents pending, intent i on address i,
\* every address watched; Spec reaches each of these states
InitConc ==
  /\ requiredConfs \in 1..MaxRequiredConfs
  /\ intents \in [IntentIds ->
        {[status |-> "pending", confirmedAt |-> FALSE, addressId |-> i,
          amountSats |-> AmountSats, requiredConfs |-> rc, pastExpiry |-> FALSE] :
            i \in IntentIds, rc \in {requiredConfs}}]
  /\ \A i \in IntentIds : intents[i].addressId = i
  /\ addresses = [a \in Addresses |-> a]
  /\ observations = << >>
  /\ watchedAddresses = Addresses
  /\ addressToIntentMap = [a \in Addresses |-> a]
  /\ isRunning = TRUE
  /\ onProcessing = [i \in IntentIds |-> 0]
  /\ onConfirmed = [i \in IntentIds |-> 0]
  /\ onReorg = [i \in IntentIds |-> 0]
  /\ onExpired = [i \in IntentIds |-> 0]
  /\ toConfirmed = [i \in IntentIds |-> 0]
  /\ chain = [x \in TxIds |-> -1]
  /\ reorgs = 0
  /\ tasks = [s \in 1..MaxTasks |-> NoTask]
  /\ started = 0
  /\ adapter = "prisma"
  /\ derivationIndex = [a \in Addresses |-> a - 1]
  /\ tokens = << >>
  /\ secret = << 1 >>
  /\ throwing = FALSE
  /\ clock = 0
  /\ minted = NoMint
  /\ verified = NoVerify
  /\ pollInterval = 1
  /\ zmqIsRunning = TRUE
  /\ uri = NoUri
  /\ paymentStatus = NoStatus
  /\ derived = << >>
  /\ rpc = [up |-> TRUE, outages |-> 0]
  /\ failedTx = {}
  /\ today = 0
  /\ subscriptions = << >>
  /\ intentSubscription = [i \in IntentIds |-> 0]
  /\ subscriptionEvents = << >>
  /\ response = NoResponse
  /\ inngestEvents = [e \in InngestEvents |-> 0]
  /\ emittedConfirmed = [i \in IntentIds |-> 0]

\* SpecConc: the watcher's triggers and the expiry sweep as handlers that
\* interleave at their awaits, from the state after set-up.
NextConc ==
  \/ Broadcast \/ Mine \/ TimePasses
  \/ BeginHashTx \/ BeginHashBlock \/ BeginPollTick \/ BeginExpireStaleIntents
  \/ TaskStep

SpecConc == InitConc /\ [][NextConc]_vars

\* ------------------------------------------------------------ magic-link actions
\* Date.now() advances by one tick; what verifyMagicLinkToken returned in the
\* tick before is no longer told
Tick ==
  /\ clock < MaxClock
  /\ clock' = clock + 1
  /\ verified' = NoVerify
  /\ UNCHANGED << intents, addresses, observations, watchedAddresses,
                  addressToIntentMap, isRunning, requiredConfs, subscriptionVars, rpc, failedTx,
                  onProcessing,
                  onConfirmed, onReorg, onExpired, toConfirmed, chain, reorgs,
                  tasks, started, adapter, derivationIndex, tokens, secret,
                  minted, throwing, pureVars, response, timerVars, inngestVars >>

\* createMagicLinkToken({intentId, nonce}, sec, ttlSeconds), called once
Mint ==
  /\ minted = NoMint
  /\ \E intentId \in IntentIds, nonce \in Nonces, sec \in Secrets,
        ttlSeconds \in 1..MaxTtl :
       minted' = [intentId |-> intentId, nonce |-> nonce, secret |-> sec,
                  ttlSeconds |-> ttlSeconds, at |-> clock,
                  token |-> createMagicLinkToken(intentId, nonce, sec,
                                                 ttlSeconds, clock)]
  /\ UNCHANGED << intents, addresses, observations, watchedAddresses,
                  addressToIntentMap, isRunning, requiredConfs, subscriptionVars, rpc, failedTx,
                  onProcessing,
                  onConfirmed, onReorg, onExpired, toConfirmed, chain, reorgs,
                  tasks, started, adapter, derivationIndex, tokens, secret,
                  clock, verified, throwing, pureVars, response, timerVars, inngestVars >>

\* verifyMagicLinkToken(token, sec) on the token created, with any secret
Verify ==
  /\ minted # NoMint
  /\ \E sec \in Secrets :
       verified' = [secret |-> sec, at |-> clock,
                    payload |-> verifyMagicLinkToken(minted.token, sec, clock)]
  /\ UNCHANGED << intents, addresses, observations, watchedAddresses,
                  addressToIntentMap, isRunning, requiredConfs, subscriptionVars, rpc, failedTx,
                  onProcessing,
                  onConfirmed, onReorg, onExpired, toConfirmed, chain, reorgs,
                  tasks, started, adapter, derivationIndex, tokens, secret,
                  clock, minted, throwing, pureVars, response, timerVars, inngestVars >>

\* createMagicLink({intentId, ttlHours}), ttlHours 0 standing for none given;
\* nanoid() draws the nonce
CreateMagicLink ==
  /\ Len(tokens) < MaxTokens
  /\ \E intentId \in IntentIds, ttlHours \in 0..MaxTtlHours, nonce \in Nonces :
       Call(createMagicLink(intentId, ttlHours, nonce))
  /\ UNCHANGED << isRunning, requiredConfs, subscriptionVars, rpc, chain, reorgs, tasks, started,
                  adapter, linkVars, throwing, pureVars, response,
                  timerVars, inngestVars >>

\* verifyMagicLink({token}) on a token that createMagicLink handed out
VerifyMagicLink ==
  /\ \E k \in 1..Len(tokens) : Call(verifyMagicLink(tokens[k].token))
  /\ UNCHANGED << isRunning, requiredConfs, subscriptionVars, rpc, chain, reorgs, tasks, started,
                  adapter, linkVars, throwing, pureVars, response,
                  timerVars, inngestVars >>

\* SpecToken: the two token functions on their own, under a running clock.
NextToken == Mint \/ Verify \/ Tick

SpecToken == Init /\ [][NextToken]_vars

\* SpecLink: magic links created and redeemed, one call at a time, under a
\* running clock and any secret.
InitLink ==
  /\ Empty
  /\ adapter = "prisma"
  /\ secret \in Secrets
  /\ throwing = FALSE

NextLink == CreateMagicLink \/ VerifyMagicLink \/ Tick

SpecLink == InitLink /\ [][NextLink]_vars

\* `(error as {status?: number}).status || 500` of an Error thrown without
\* a status field
InternalServerError == 500

\* Response.json(data)
Ok == 200

\* Response.json(intent, {status: 201})
Created == 201

\* the catch of handler(): `{error: error.message}` with errorStatus
Caught(w) ==
  [w EXCEPT !.response = [status |-> InternalServerError, error |-> w.error]]

\* handler(request) for GET /pay/:token: verifyMagicLink({token}), then
\* ensureAssigned(intentId), then Response.json(data); a throw of either lands
\* in the catch
HandlerGetPay(w, token) ==
  LET verifiedLink == Run(w, verifyMagicLink(token)) IN
  IF verifiedLink.error # "none" THEN Caught(verifiedLink)
  ELSE LET data == Run(verifiedLink, ensureAssigned(verifiedLink.returned)) IN
       IF data.error # "none" THEN Caught(data)
       ELSE [data EXCEPT !.response = [status |-> Ok, error |-> "none"]]

\* the tokens a client can send: the ones handed out, and tokens put together
\* by the client itself under a one-byte secret
RequestTokens ==
  {tokens[k].token : k \in 1..Len(tokens)}
    \cup {createMagicLinkToken(i, 1, sec, 1, clock) :
            i \in IntentIds, sec \in {x \in Secrets : Len(x) = 1}}

\* GET /pay/:token
GetPay ==
  /\ \E token \in RequestTokens :
       LET w == HandlerGetPay(World, token) IN
         /\ Commit(w)
         /\ response' = w.response
  /\ UNCHANGED << isRunning, requiredConfs, subscriptionVars, rpc, chain, reorgs, tasks, started,
                  adapter, linkVars, throwing, pureVars, timerVars, inngestVars >>

\* POST /intents with a body that names no requiredConfs:
\* createPaymentIntent(data), answered with 201
PostIntents ==
  /\ \E i \in IntentIds :
       /\ intents[i].status = "none"
       /\ \A j \in 1..(i - 1) : intents[j].status # "none"
       /\ intents' = [intents EXCEPT ![i] =
            [status |-> "pending", confirmedAt |-> FALSE, addressId |-> 0,
             amountSats |-> AmountSats, requiredConfs |-> requiredConfs,
             pastExpiry |-> FALSE]]
  /\ response' = [status |-> Created, error |-> "none"]
  /\ UNCHANGED << addresses, observations, watchedAddresses, addressToIntentMap,
                  isRunning, requiredConfs, subscriptionVars, rpc, failedTx,
                  onProcessing, onConfirmed, onReorg,
                  onExpired, toConfirmed, chain, reorgs, tasks, started,
                  adapter, derivationIndex, tokens, linkVars, throwing, pureVars,
                  timerVars, inngestVars >>

\* handler(request) for POST /intents/:id/magic-link:
\* createMagicLink({intentId, ttlHours}), then Response.json({url, token})
HandlerPostMagicLink(w, intentId, ttlHours, nonce) ==
  LET link == Run(w, createMagicLink(intentId, ttlHours, nonce)) IN
  IF link.error # "none" THEN Caught(link)
  ELSE [link EXCEPT !.response = [status |-> Ok, error |-> "none"]]

\* POST /intents/:id/magic-link, with one value for what nanoid() draws
PostMagicLink ==
  /\ Len(tokens) < MaxTokens
  /\ \E intentId \in IntentIds, ttlHours \in 0..MaxTtlHours :
       LET nonce == CHOOSE n \in Nonces : TRUE
           w == HandlerPostMagicLink(World, intentId, ttlHours, nonce)
       IN /\ Commit(w)
          /\ response' = w.response
  /\ UNCHANGED << isRunning, requiredConfs, subscriptionVars, rpc, chain, reorgs, tasks, started,
                  adapter, linkVars, throwing, pureVars, timerVars, inngestVars >>

\* SpecHttp: the routes of the HTTP handler that create intents and links
\* and redeem links, one request at a time, with the clock running.
NextHttp == PostIntents \/ PostMagicLink \/ GetPay \/ Tick

SpecHttp == Init /\ [][NextHttp]_vars

\* SpecLifecycle: the verbs of the payment instance alone, one call at a time.
NextLifecycle ==
  \/ CreatePaymentIntent \/ EnsureAssigned \/ TimePasses \/ ExpireStaleIntents

SpecLifecycle == Init /\ [][NextLifecycle]_vars

\* ------------------------------------------------------------ Mempool.space client
\* tx.vout.filter((vout) => vout.scriptpubkey_address === address)
\*        .reduce((sum, vout) => sum + vout.value, 0)
amountToAddress(vout, address) ==
  LET F[k \in 0..Len(vout)] ==
        IF k = 0 THEN 0
        ELSE IF vout[k].address = address THEN F[k - 1] + vout[k].value
             ELSE F[k - 1]
  IN F[Len(vout)]

\* chain_stats.funded_txo_sum + mempool_stats.funded_txo_sum of the address
totalReceived(txs, address) ==
  LET F[k \in 0..Len(txs)] ==
        IF k = 0 THEN 0 ELSE F[k - 1] + amountToAddress(txs[k].vout, address)
  IN F[Len(txs)]

\* MempoolClient.checkPaymentStatus(address, expectedAmount), txs being what
\* getAddressTransactions(address) returns, most recent first; a transaction
\* in a block carries the confirmations that getConfirmations computes, an
\* unconfirmed one carries 0
checkPaymentStatus(txs, address, expectedAmount) ==
  LET enough == {k \in 1..Len(txs) :
                   amountToAddress(txs[k].vout, address) >= expectedAmount}
  IN IF enough = {}
     THEN [received |-> totalReceived(txs, address), txid |-> 0,
           confirmations |-> 0, inMempool |-> FALSE, confirmed |-> FALSE]
     ELSE LET relevantTx == txs[CHOOSE k \in enough : \A j \in enough : k <= j]
              isConfirmed == relevantTx.confirmations > 0
          IN [received |-> amountToAddress(relevantTx.vout, address),
              txid |-> relevantTx.txid,
              confirmations |-> relevantTx.confirmations,
              inMempool |-> ~isConfirmed, confirmed |-> isConfirmed]

\* the output lists of a transaction
Vouts ==
  UNION {[1..n -> [address : Addresses, value : 1..AmountSats]] : n \in 1..MaxVouts}

\* what getAddressTransactions can return: transactions numbered in the
\* order of the list, unconfirmed or with one confirmation
AddressTxs ==
  UNION {{txs \in [1..n -> [txid : 1..MaxTxs, vout : Vouts, confirmations : {0, 1}]] :
            \A k \in 1..n : txs[k].txid = k} : n \in 0..MaxTxs}

\* checkPaymentStatus(address, expectedAmount), called once
CheckPaymentStatus ==
  /\ paymentStatus = NoStatus
  /\ \E txs \in AddressTxs, address \in Addresses, expectedAmount \in 1..AmountSats :
       paymentStatus' =
         [txs |-> txs, address |-> address, expectedAmount |-> expectedAmount,
          result |-> checkPaymentStatus(txs, address, expectedAmount)]
  /\ UNCHANGED << intents, addresses, observations, watchedAddresses,
                  addressToIntentMap, isRunning, requiredConfs, subscriptionVars, rpc, failedTx,
                  onProcessing,
                  onConfirmed, onReorg, onExpired, toConfirmed, chain, reorgs,
                  tasks, started, adapter, derivationIndex, tokens, linkVars,
                  throwing, uri, derived, response, timerVars, inngestVars >>

\* SpecMempool: checkPaymentStatus on its own, over the answers of the API.
NextMempool == CheckPaymentStatus

SpecMempool == Init /\ [][NextMempool]_vars

\* ------------------------------------------------------------ Inngest
Event(name, paymentId, txid, confirmations) ==
  [name |-> name, paymentId |-> paymentId, txid |-> txid,
   confirmations |-> confirmations]

\* the events sent and not yet handled
InFlight(w) ==
  LET RECURSIVE Sum(_)
      Sum(es) == IF es = {} THEN 0
                 ELSE LET e == CHOOSE x \in es : TRUE
                      IN w.inngestEvents[e] + Sum(es \ {e})
  IN Sum(InngestEvents)

\* step.sendEvent / inngest.send of one event
sendEvent(w, e) ==
  [w EXCEPT !.inngestEvents[e] = @ + 1,
            !.emittedConfirmed[e.paymentId] =
               IF e.name = "bitcoin/payment.confirmed" THEN @ + 1 ELSE @]

\* Inngest hands event e to the functions it triggers
deliver(w, e) == [w EXCEPT !.inngestEvents[e] = @ - 1]

\* findFirst({txid}) on tx_observations: the first matching row, 0 if none
getTxObservationByTxid(w, txid) ==
  LET hits == {k \in 1..Len(w.observations) : w.observations[k].txid = txid}
  IN IF hits = {} THEN 0 ELSE CHOOSE k \in hits : \A j \in hits : k <= j

\* adapter.getPendingPayments(): the pending and processing intents that
\* have an address
getPendingPayments(w) ==
  {i \in IntentIds :
     /\ w.intents[i].status \in {"pending", "processing"}
     /\ w.intents[i].addressId # 0
     /\ getDepositAddress(w, w.intents[i].addressId) # 0}

\* adapter.getPayment(paymentId).status, "null" when getPayment returns null
getPayment(w, paymentId) ==
  IF ~IntentExists(w, paymentId) \/ w.intents[paymentId].addressId = 0 THEN "null"
  ELSE IF getDepositAddress(w, w.intents[paymentId].addressId) = 0 THEN "null"
  ELSE CASE w.intents[paymentId].status = "processing" -> "mempool"
         [] w.intents[paymentId].status = "confirmed" -> "confirmed"
         [] w.intents[paymentId].status = "expired" -> "expired"
         [] OTHER -> "pending"

\* statusMap of updatePaymentStatus
statusMap(status) == IF status = "mempool" THEN "processing" ELSE status

\* adapter.updatePaymentStatus(paymentId, {status, txid, confirmations});
\* txid 0 stands for no txid
updatePaymentStatus(w, paymentId, status, txid, confirmations) ==
  IF ~IntentExists(w, paymentId) THEN w
  ELSE LET intent == getPaymentIntent(w, paymentId)
           w1 == [w EXCEPT
                    !.intents[paymentId].status = statusMap(status),
                    !.intents[paymentId].confirmedAt =
                       IF status = "confirmed" THEN TRUE ELSE @,
                    !.toConfirmed[paymentId] =
                       IF status = "confirmed" /\ intent.status # "confirmed"
                       THEN @ + 1 ELSE @]
           existing == getTxObservationByTxid(w1, txid)
           row == [txid |-> txid, vout |-> 0, valueSats |-> intent.amountSats,
                   confirmations |-> confirmations,
                   addressId |-> intent.addressId,
                   status |-> IF status = "confirmed" THEN "confirmed" ELSE "mempool"]
       IN IF txid = 0 \/ intent.addressId = 0 THEN w1
          ELSE IF getDepositAddress(w1, intent.addressId) = 0 THEN w1
          ELSE IF existing # 0
               THEN [w1 EXCEPT !.observations[existing].confirmations = confirmations]
               ELSE [w1 EXCEPT !.observations = Append(@, row)]

\* what the Mempool API lists for an address: the transactions the node
\* knows that pay it, most recent first
RECURSIVE TxsOf(_, _, _)
TxsOf(w, address, txids) ==
  IF txids = {} THEN << >>
  ELSE LET x == CHOOSE y \in txids : \A z \in txids : z <= y
       IN (IF w.chain[x] >= 0 /\ amountToAddress(TxVout(x), address) > 0
           THEN << [txid |-> x, vout |-> TxVout(x), confirmations |-> w.chain[x]] >>
           ELSE << >>)
          \o TxsOf(w, address, txids \ {x})

\* checkPendingPayments, the cron function: one bitcoin/payment.check for
\* each pending payment
RECURSIVE fanOut(_, _)
fanOut(w, pending) ==
  IF pending = {} THEN w
  ELSE LET i == CHOOSE j \in pending : \A k \in pending : j <= k
       IN fanOut(sendEvent(w, Event("bitcoin/payment.check", i, 0, 0)),
                 pending \ {i})

checkPendingPayments(w) == fanOut(w, getPendingPayments(w))

\* checkPayment, the function of bitcoin/payment.check: the event carries
\* the payment's address, amount and expiresAt
checkPayment(w, e) ==
  LET paymentId == e.paymentId
      address == addressOf(w, w.intents[paymentId].addressId)
      expectedAmount == w.intents[paymentId].amountSats
      status == checkPaymentStatus(TxsOf(w, address, TxIds), address, expectedAmount)
      currentPayment == getPayment(w, paymentId)
      w1 == IF status.inMempool /\ ~status.confirmed /\ currentPayment = "pending"
            THEN sendEvent(w, Event("bitcoin/payment.mempool", paymentId,
                                    status.txid, 0))
            ELSE w
  IN IF w.intents[paymentId].pastExpiry
     THEN sendEvent(w, Event("bitcoin/payment.expired", paymentId, 0, 0))
     ELSE IF currentPayment = "null" THEN w
     ELSE IF /\ status.confirmed
             /\ status.confirmations >= InngestConfirmations
             /\ currentPayment # "confirmed"
          THEN sendEvent(w1, Event("bitcoin/payment.confirmed", paymentId,
                                   status.txid, status.confirmations))
          ELSE w1

\* handleMempool, the function of bitcoin/payment.mempool
handleMempool(w, e) == updatePaymentStatus(w, e.paymentId, "mempool", e.txid, 0)

\* handleConfirmed and the user's onConfirmed handler, the two functions of
\* bitcoin/payment.confirmed
handleConfirmed(w, e) ==
  [updatePaymentStatus(w, e.paymentId, "confirmed", e.txid, e.confirmations)
     EXCEPT !.onConfirmed[e.paymentId] = @ + 1]

\* handleExpired and the user's onExpired handler, the two functions of
\* bitcoin/payment.expired
handleExpired(w, e) ==
  [updatePaymentStatus(w, e.paymentId, "expired", 0, 0)
     EXCEPT !.onExpired[e.paymentId] = @ + 1]

\* the variables of a step of the Inngest service
CommitInngest(w) ==
  /\ Commit(w)
  /\ inngestEvents' = w.inngestEvents
  /\ emittedConfirmed' = w.emittedConfirmed
  /\ UNCHANGED << isRunning, requiredConfs, subscriptionVars, rpc, chain, reorgs, tasks, started,
                  adapter, linkVars, throwing, pureVars, response, timerVars >>

\* a tick of the cron schedule
CheckPendingPayments ==
  /\ InFlight(World) + Cardinality(getPendingPayments(World)) <= MaxInFlight
  /\ CommitInngest(checkPendingPayments(World))

\* Inngest runs checkPayment on a bitcoin/payment.check event
CheckPayment ==
  /\ \E e \in InngestEvents :
       /\ e.name = "bitcoin/payment.check" /\ inngestEvents[e] > 0
       /\ CommitInngest(checkPayment(deliver(World, e), e))

\* Inngest runs handleMempool on a bitcoin/payment.mempool event
HandleMempool ==
  /\ \E e \in InngestEvents :
       /\ e.name = "bitcoin/payment.mempool" /\ inngestEvents[e] > 0
       /\ CommitInngest(handleMempool(deliver(World, e), e))

\* Inngest runs the functions of a bitcoin/payment.confirmed event
HandleConfirmed ==
  /\ \E e \in InngestEvents :
       /\ e.name = "bitcoin/payment.confirmed" /\ inngestEvents[e] > 0
       /\ CommitInngest(handleConfirmed(deliver(World, e), e))

\* Inngest runs the functions of a bitcoin/payment.expired event
HandleExpired ==
  /\ \E e \in InngestEvents :
       /\ e.name = "bitcoin/payment.expired" /\ inngestEvents[e] > 0
       /\ CommitInngest(handleExpired(deliver(World, e), e))

\* SpecInngest: payments watched by the Inngest functions alone: intents are
\* created and given addresses, time passes, transactions are broadcast and
\* mined, the cron ticks and Inngest delivers events in any order.
NextInngest ==
  \/ CreatePaymentIntent \/ EnsureAssigned \/ TimePasses \/ Broadcast \/ Mine
  \/ CheckPendingPayments \/ CheckPayment
  \/ HandleMempool \/ HandleConfirmed \/ HandleExpired

InitInngest ==
  /\ Init
  /\ requiredConfs = 1

SpecInngest == InitInngest /\ [][NextInngest]_vars

\* SpecInngestFair: SpecInngest where the cron keeps ticking and Inngest
\* hands every event it holds to its functions.
SpecInngestFair ==
  /\ SpecInngest
  /\ WF_vars(CheckPendingPayments)
  /\ WF_vars(CheckPayment)
  /\ WF_vars(HandleMempool)
  /\ WF_vars(HandleConfirmed)
  /\ WF_vars(HandleExpired)

\* ------------------------------------------------------------ createBIP21URI
\* A string is the sequence of its characters.
Digit(d) == << "0", "1", "2", "3", "4", "5", "6", "7", "8", "9" >>[d + 1]

\* the decimal digits of n >= 0, without leading zeros
RECURSIVE DigitsOf(_)
DigitsOf(n) ==
  IF n < 10 THEN << Digit(n) >>
  ELSE DigitsOf(n \div 10) \o << Digit(n % 10) >>

\* the last `width` decimal digits of n, zeros included
RECURSIVE Padded(_, _)
Padded(n, width) ==
  IF width = 0 THEN << >>
  ELSE Padded(n \div 10, width - 1) \o << Digit(n % 10) >>

\* toFixed that drops the zeros between the point and the first digit
amountBTC_Unpadded(amountSats) ==
  DigitsOf(amountSats \div SatsPerBtc) \o << "." >>
    \o DigitsOf(amountSats % SatsPerBtc)

\* (amountSats / 100_000_000).toFixed(8) for a whole number of satoshis: the
\* quotient is a multiple of 10^-8, which toFixed(8) writes out in full
amountBTC(amountSats) ==
  DigitsOf(amountSats \div SatsPerBtc) \o << "." >>
    \o Padded(amountSats % SatsPerBtc, Decimals)

\* encodeURIComponent(text): letters stay, a space becomes %20, & becomes %26
RECURSIVE encodeURIComponent(_)
encodeURIComponent(text) ==
  IF text = << >> THEN << >>
  ELSE (CASE Head(text) = " " -> << "%", "2", "0" >>
          [] Head(text) = "&" -> << "%", "2", "6" >>
          [] OTHER -> << Head(text) >>)
       \o encodeURIComponent(Tail(text))

\* createBIP21URI(address, amountSats, label, message); an absent label or
\* message is the empty string, which `if (label)` skips as well
createBIP21URI(address, amountSats, label, message) ==
  << "b", "i", "t", "c", "o", "i", "n", ":" >> \o address
    \o << "?", "a", "m", "o", "u", "n", "t", "=" >> \o amountBTC(amountSats)
    \o (IF label # << >>
        THEN << "&", "l", "a", "b", "e", "l", "=" >> \o encodeURIComponent(label)
        ELSE << >>)
    \o (IF message # << >>
        THEN << "&", "m", "e", "s", "s", "a", "g", "e", "=" >>
               \o encodeURIComponent(message)
        ELSE << >>)

\* the addresses, amounts and texts createBIP21URI is called with
UriAddresses == {<< "b", "c", "1", "q" >>, << "t", "b", "1", "q" >>}

UriAmounts ==
  {0, 1, 100000, 99999999, SatsPerBtc, SatsPerBtc + 1, 21 * SatsPerBtc}

UriTexts == {<< >>, << "a" >>, << "a", " ", "b" >>, << "a", "&", "b" >>}

\* createBIP21URI(address, amountSats, label, message), called once
CreateBIP21URI ==
  /\ uri = NoUri
  /\ \E address \in UriAddresses, amountSats \in UriAmounts,
        label \in UriTexts, message \in UriTexts :
       uri' = [address |-> address, amountSats |-> amountSats, label |-> label,
               message |-> message,
               text |-> createBIP21URI(address, amountSats, label, message)]
  /\ UNCHANGED << intents, addresses, observations, watchedAddresses,
                  addressToIntentMap, isRunning, requiredConfs, subscriptionVars, rpc, failedTx,
                  onProcessing,
                  onConfirmed, onReorg, onExpired, toConfirmed, chain, reorgs,
                  tasks, started, adapter, derivationIndex, tokens, linkVars,
                  throwing, paymentStatus, derived, response, timerVars,
                  inngestVars >>

\* SpecBip21: createBIP21URI on its own.
NextBip21 == CreateBIP21URI

SpecBip21 == Init /\ [][NextBip21]_vars

\* ---- crypto/descriptor.ts: deriveAddress ----

\* the size of the key space the model's keys and hashes live in
KeySpace == 13

\* the extended public keys: the version bytes of the base58 string and the
\* key and chain code it carries
Xpubs ==
  {[version |-> "xpub", key |-> 2, chainCode |-> 3],
   [version |-> "tpub", key |-> 5, chainCode |-> 7]}

\* ParsedDescriptor: type, xpub and the bitcoinjs network parseDescriptor
\* chose ("bitcoin" for mainnet, "testnet" for every other network name)
Descriptors ==
  [type : {"tr", "wpkh", "sh", "pkh"}, xpub : Xpubs,
   network : {"bitcoin", "testnet"}]

DeriveIndexes == 0..1

\* the calling processes, each with its own `bip32 = BIP32Factory(ecc)`
Processes == 1..2

MaxDerived == 2

\* bip32.fromBase58(xpub, network): the version bytes must be the network's
fromBase58(xpub, network) ==
  IF xpub.version = (IF network = "bitcoin" THEN "xpub" ELSE "tpub")
  THEN [key |-> xpub.key, chainCode |-> xpub.chainCode]
  ELSE [key |-> -1, chainCode |-> -1]

\* a derivation that mixes the number of calls made so far into the child key
derive_Counting(node, index) ==
  [key |-> (node.key + node.chainCode * (index + 1) + Len(derived)) % KeySpace,
   chainCode |-> (node.chainCode * node.key + index + 1) % KeySpace]

\* node.derive(index), not hardened: the child key and chain code are the two
\* halves of a keyed hash of the parent public key and the index
derive(node, index) ==
  [key |-> (node.key + node.chainCode * (index + 1)) % KeySpace,
   chainCode |-> (node.chainCode * node.key + index + 1) % KeySpace]

\* hash160 of a public key or of a redeem script
hash160(data) == (data * 5 + 1) % KeySpace

\* deriveAddress(descriptor, index): the payment of the descriptor's type
\* for the key at 0/index; address and scriptPubKey are payment.address and
\* payment.output, and a key of the wrong network throws
deriveAddressOf(descriptor, index) ==
  LET node == fromBase58(descriptor.xpub, descriptor.network)
      childNode == derive(derive(node, 0), index)
      hrp == IF descriptor.network = "bitcoin" THEN "bc" ELSE "tb"
      pubkey == childNode.key
      program == hash160(pubkey)
  IN IF node.key = -1
     THEN [error |-> "Invalid network version", address |-> << >>,
           scriptPubKey |-> << >>]
     ELSE CASE descriptor.type = "tr" ->
               [error |-> "none", address |-> << hrp, "1", "p", pubkey >>,
                scriptPubKey |-> << "OP_1", pubkey >>]
            [] descriptor.type = "wpkh" ->
               [error |-> "none", address |-> << hrp, "1", "q", program >>,
                scriptPubKey |-> << "OP_0", program >>]
            [] descriptor.type = "sh" ->
               [error |-> "none",
                address |-> << IF descriptor.network = "bitcoin" THEN "3"
                               ELSE "2", hash160(program) >>,
                scriptPubKey |-> << "OP_HASH160", hash160(program), "OP_EQUAL" >>]
            [] descriptor.type = "pkh" ->
               [error |-> "none",
                address |-> << IF descriptor.network = "bitcoin" THEN "1"
                               ELSE "m", program >>,
                scriptPubKey |-> << "OP_DUP", "OP_HASH160", program,
                                    "OP_EQUALVERIFY", "OP_CHECKSIG" >>]

\* one call of deriveAddress(descriptor, index) in some process
DeriveAddress ==
  /\ Len(derived) < MaxDerived
  /\ \E process \in Processes, descriptor \in Descriptors,
        index \in DeriveIndexes :
       derived' = Append(derived,
                         [process |-> process, descriptor |-> descriptor,
                          index |-> index,
                          result |-> deriveAddressOf(descriptor, index)])
  /\ UNCHANGED << intents, addresses, observations, watchedAddresses,
                  addressToIntentMap, isRunning, requiredConfs, subscriptionVars, rpc, failedTx,
                  onProcessing,
                  onConfirmed, onReorg, onExpired, toConfirmed, chain, reorgs,
                  tasks, started, adapter, derivationIndex, tokens, linkVars,
                  throwing, uri, paymentStatus, response, timerVars,
                  inngestVars >>

\* SpecDerive: deriveAddress on its own, called from two processes.
NextDerive == DeriveAddress

SpecDerive == Init /\ [][NextDerive]_vars

MaxOutages == 1

\* the node stops answering: every RPC call rejects
RpcFails ==
  /\ rpc.up
  /\ rpc.outages < MaxOutages
  /\ rpc' = [up |-> FALSE, outages |-> rpc.outages + 1]
  /\ UNCHANGED << intents, addresses, observations, watchedAddresses,
                  addressToIntentMap, isRunning, requiredConfs, subscriptionVars,
                  failedTx,
                  onProcessing, onConfirmed, onReorg, onExpired, toConfirmed,
                  chain, reorgs, tasks, started, adapter, derivationIndex,
                  tokens, linkVars, throwing, pureVars, response, timerVars,
                  inngestVars >>

\* the node answers again
RpcRecovers ==
  /\ ~rpc.up
  /\ rpc' = [rpc EXCEPT !.up = TRUE]
  /\ UNCHANGED << intents, addresses, observations, watchedAddresses,
                  addressToIntentMap, isRunning, requiredConfs, subscriptionVars,
                  failedTx,
                  onProcessing, onConfirmed, onReorg, onExpired, toConfirmed,
                  chain, reorgs, tasks, started, adapter, derivationIndex,
                  tokens, linkVars, throwing, pureVars, response, timerVars,
                  inngestVars >>

\* the poll timer fires while the watcher runs: checkConfirmations() starts
\* as one more handler, as often as the timer fires
TimerFires ==
  /\ pollInterval > 0
  /\ \E s \in 1..MaxTasks :
       /\ tasks[s] = NoTask
       /\ \A r \in 1..(s - 1) : tasks[r] # NoTask
       /\ tasks' = [tasks EXCEPT ![s] = checkConfirmations]
  /\ UNCHANGED << intents, addresses, observations, watchedAddresses,
                  addressToIntentMap, isRunning, requiredConfs, subscriptionVars, rpc, failedTx,
                  onProcessing, onConfirmed, onReorg, onExpired, toConfirmed,
                  chain, reorgs, started, adapter, derivationIndex, tokens,
                  linkVars, throwing, pureVars, response, timerVars,
                  inngestVars >>

\* SpecRpcFair: the running watcher with a node that can be unreachable;
\* the poll timer keeps firing, the event loop resumes every handler whose
\* awaited operation has completed, and an outage ends
NextRpc ==
  \/ Broadcast \/ Mine \/ BeginHashTx \/ TimerFires \/ TaskStep
  \/ RpcFails \/ RpcRecovers

SpecRpcFair ==
  InitConc /\ [][NextRpc]_vars
    /\ WF_vars(TimerFires) /\ WF_vars(RpcRecovers)
    /\ \A s \in 1..MaxTasks : WF_vars(Resume(s))

\* SpecStop: the running watcher with handlers that interleave at their
\* awaits, and stop() called at any moment.
NextStop ==
  \/ Broadcast \/ Mine \/ BeginHashTx \/ BeginHashBlock \/ BeginPollTick
  \/ TaskStep \/ Stop

SpecStop == InitConc /\ [][NextStop]_vars

\* ---- subscriptions: createSubscription and the renewal job ----

MaxSubscriptions == 2

MaxDays == 3

\* the configured plans, by planId: daily plans of intervalCount days; a plan
\* without maxCycles has 0, a plan without trial has trialDays 0
Plans ==
  << [maxCycles |-> 1, trialDays |-> 0, intervalCount |-> 1],
     [maxCycles |-> 1, trialDays |-> 1, intervalCount |-> 1],
     [maxCycles |-> 0, trialDays |-> 0, intervalCount |-> 2] >>

\* the payment intent slots not yet used, lowest first
FreeIntents(ints) == {i \in IntentIds : ints[i].status = "none"}

NextIntentId(ints) ==
  CHOOSE i \in FreeIntents(ints) : \A j \in FreeIntents(ints) : i <= j

\* the row storage.createPaymentIntent stores for a subscription payment
SubscriptionIntent(confs) ==
  [status |-> "pending", confirmedAt |-> FALSE, addressId |-> 0,
   amountSats |-> AmountSats, requiredConfs |-> confs, pastExpiry |-> FALSE]

\* a new day
DayPasses ==
  /\ today < MaxDays
  /\ today' = today + 1
  /\ UNCHANGED << intents, addresses, observations, watchedAddresses,
                  addressToIntentMap, isRunning, requiredConfs, subscriptions,
                  intentSubscription, subscriptionEvents, rpc, failedTx,
                  onProcessing, onConfirmed, onReorg, onExpired, toConfirmed,
                  chain, reorgs, tasks, started, adapter, derivationIndex,
                  tokens, linkVars, throwing, pureVars, response, timerVars,
                  inngestVars >>

\* createSubscription({planId}): the subscription row with cyclesCompleted 0,
\* trialing until trialEnd or active until the end of the first period, and
\* for an active one the first payment intent (stored without subscriptionId)
CreateSubscription ==
  /\ Len(subscriptions) < MaxSubscriptions
  /\ \E planId \in 1..Len(Plans) :
       LET plan == Plans[planId]
           status == IF plan.trialDays > 0 THEN "trialing" ELSE "active"
           currentPeriodEnd ==
             IF plan.trialDays > 0 THEN today + plan.trialDays
             ELSE today + plan.intervalCount
       IN /\ status = "active" => FreeIntents(intents) # {}
          /\ subscriptions' =
               Append(subscriptions,
                      [planId |-> planId, status |-> status,
                       currentPeriodEnd |-> currentPeriodEnd,
                       cyclesCompleted |-> 0, lastPaymentIntentId |-> 0,
                       cancelAtPeriodEnd |-> FALSE])
          /\ intents' =
               IF status = "active"
               THEN [intents EXCEPT ![NextIntentId(intents)] =
                       SubscriptionIntent(requiredConfs)]
               ELSE intents
  /\ UNCHANGED << addresses, observations, watchedAddresses,
                  addressToIntentMap, isRunning, requiredConfs, today,
                  intentSubscription, subscriptionEvents, rpc, failedTx,
                  onProcessing, onConfirmed, onReorg, onExpired, toConfirmed,
                  chain, reorgs, tasks, started, adapter, derivationIndex,
                  tokens, linkVars, throwing, pureVars, response, timerVars,
                  inngestVars >>

\* what the renewal job reads and writes
Billing ==
  [intents |-> intents, intentSubscription |-> intentSubscription,
   subscriptions |-> subscriptions, subscriptionEvents |-> subscriptionEvents]

\* storage.getSubscriptionsNeedingRenewal(beforeDate): the ids of the active
\* and trialing subscriptions whose period ends on or before that date
getSubscriptionsNeedingRenewal(b, beforeDate) ==
  {s \in 1..Len(b.subscriptions) :
     /\ b.subscriptions[s].status \in {"active", "trialing"}
     /\ b.subscriptions[s].currentPeriodEnd <= beforeDate
     /\ ~b.subscriptions[s].cancelAtPeriodEnd}

\* calculateNextPeriodEnd(currentEnd, "daily", intervalCount)
calculateNextPeriodEnd(currentEnd, intervalCount) == currentEnd + intervalCount

\* the step renew-subscription-<id> for the subscription as the job loaded
\* it; the update after a renewal does not name cyclesCompleted
renewSubscription(b, s, subscription) ==
  LET plan == Plans[subscription.planId] IN
  IF plan.maxCycles # 0 /\ subscription.cyclesCompleted >= plan.maxCycles
  THEN [b EXCEPT !.subscriptions[s].status = "expired",
                 !.subscriptionEvents =
                    Append(@, [name |-> "bitcoin/subscription.expired",
                               subscriptionId |-> s, cycleNumber |-> 0])]
  ELSE LET id == NextIntentId(b.intents) IN
       [b EXCEPT
          !.intents[id] = SubscriptionIntent(InngestConfirmations),
          !.intentSubscription[id] = s,
          !.subscriptions[s] =
             [@ EXCEPT !.currentPeriodEnd =
                          calculateNextPeriodEnd(subscription.currentPeriodEnd,
                                                 plan.intervalCount),
                       !.lastPaymentIntentId = id,
                       !.status = IF subscription.status = "trialing"
                                  THEN "active" ELSE subscription.status],
          !.subscriptionEvents =
             Append(@, [name |-> "bitcoin/subscription.renewal_created",
                        subscriptionId |-> s,
                        cycleNumber |-> subscription.cyclesCompleted + 1])]

\* `for (const subscription of needingRenewal)`, in the order of the ids
RECURSIVE renewAll(_, _, _)
renewAll(b, needingRenewal, loaded) ==
  IF needingRenewal = {} THEN b
  ELSE LET s == CHOOSE x \in needingRenewal : \A y \in needingRenewal : x <= y
       IN renewAll(renewSubscription(b, s, loaded[s]), needingRenewal \ {s},
                   loaded)

\* checkSubscriptionRenewals, the cron function: the subscriptions whose
\* period ends within the next day are renewed or expired
CheckSubscriptionRenewals ==
  /\ LET needingRenewal == getSubscriptionsNeedingRenewal(Billing, today + 1)
         b == renewAll(Billing, needingRenewal, subscriptions)
     IN /\ Cardinality(FreeIntents(intents)) >= Cardinality(needingRenewal)
        /\ intents' = b.intents
        /\ intentSubscription' = b.intentSubscription
        /\ subscriptions' = b.subscriptions
        /\ subscriptionEvents' = b.subscriptionEvents
  /\ UNCHANGED << addresses, observations, watchedAddresses,
                  addressToIntentMap, isRunning, requiredConfs, today, rpc,
                  failedTx, onProcessing, onConfirmed, onReorg, onExpired,
                  toConfirmed, chain, reorgs, tasks, started, adapter,
                  derivationIndex, tokens, linkVars, throwing, pureVars,
                  response, timerVars, inngestVars >>

\* SpecSubscription: subscriptions created and renewed by the daily job.
NextSubscription == CreateSubscription \/ DayPasses \/ CheckSubscriptionRenewals

SpecSubscription == Init /\ [][NextSubscription]_vars

\* SpecWatcher: the watcher started and stopped, with intents, addresses
\* and payments found by scanForPayments, one call at a time.
NextWatcher ==
  \/ CreatePaymentIntent \/ EnsureAssigned \/ Start \/ Stop
  \/ Broadcast \/ Mine \/ ScanForPayments

SpecWatcher == Init /\ [][NextWatcher]_vars

\* SpecThrow: the verbs of the payment instance, one call at a time, with
\* event callbacks that throw or that return.
InitThrow ==
  /\ Empty
  /\ adapter = "prisma"
  /\ secret = << 1 >>
  /\ throwing \in BOOLEAN

SpecThrow == InitThrow /\ [][NextLifecycle]_vars

\* SpecAssign: ensureAssigned calls that interleave at their awaits.
NextAssign == CreatePaymentIntent \/ BeginEnsureAssigned \/ TaskStep

InitAssign ==
  /\ Empty
  /\ adapter \in Adapters
  /\ secret = << 1 >>
  /\ throwing = FALSE

SpecAssign == InitAssign /\ [][NextAssign]_vars


\* ------------------------------------------------------------ claims
\* the observation rows of world w on deposit address a
ObsOn(w, a) == {k \in 1..Len(w.observations) : w.observations[k].addressId = a}

\* the status changes the transition table allows
AllowedEdges ==
  { <<"pending", "processing">>, <<"pending", "confirmed">>,
    <<"processing", "confirmed">>, <<"confirmed", "processing">>,
    <<"pending", "expired">> }

\* C1: every status change of an existing intent is one of pending->processing,
\* pending->confirmed, processing->confirmed, confirmed->processing or
\* pending->expired; an expired or failed intent keeps its status.
C1_TransitionsAllowed ==
  [][\A i \in IntentIds :
       (intents[i].status # "none" /\ intents'[i].status # intents[i].status)
         => <<intents[i].status, intents'[i].status>> \in AllowedEdges]_vars

\* C2: an intent with status confirmed has confirmedAt set and an observation
\* on its address with status confirmed and confirmations >= requiredConfs.
C2_ConfirmedHasCompanion ==
  \A i \in IntentIds :
    intents[i].status = "confirmed" =>
      /\ intents[i].confirmedAt
      /\ \E k \in ObsOn(World, intents[i].addressId) :
           /\ observations[k].status = "confirmed"
           /\ observations[k].confirmations >= intents[i].requiredConfs

\* C3: an intent whose observations all have valueSats < amountSats is never
\* confirmed.
C3_UnderpaidNeverConfirmed ==
  \A i \in IntentIds :
    (\A k \in ObsOn(World, intents[i].addressId) :
        observations[k].valueSats < intents[i].amountSats)
      => intents[i].status # "confirmed"

\* C4: a step writes expired over an intent only when the intent is pending
\* and has no observation at that moment; an intent that has become
\* processing or confirmed is never overwritten to expired.
C4_ExpireOnlyPendingUnobserved ==
  [][\A i \in IntentIds :
       (intents'[i].status = "expired" /\ intents[i].status # "expired") =>
          /\ intents[i].status = "pending"
          /\ ObsOn(World, intents[i].addressId) = {}]_vars

\* the node no longer knows the transaction of an observation of intent i
TxMissing(i) ==
  \E k \in ObsOn(World, intents[i].addressId) : chain[observations[k].txid] = -1

\* C5: an intent moves from confirmed to processing if and only if a
\* reconciliation tick runs while it is confirmed and the node no longer knows
\* the transaction of its observation; onReorg fires once for each such move.
\* "If": from every state, the tick run now makes the move.  "Only if": every
\* step that makes the move starts with the transaction missing.
C5_ReorgIff ==
  [][\A i \in IntentIds :
       /\ (isRunning /\ intents[i].status = "confirmed" /\ TxMissing(i)) =>
            LET w == Run(World, checkConfirmations) IN
              /\ w.intents[i].status = "processing"
              /\ w.onReorg[i] = onReorg[i] + 1
       /\ (intents[i].status = "confirmed" /\ intents'[i].status = "processing") =>
            /\ TxMissing(i)
            /\ onReorg'[i] = onReorg[i] + 1]_vars

\* C6: onConfirmed is emitted once for each stored change of an intent to
\* confirmed: never more often, and as often once no handler is in flight.
C6_OnConfirmedOncePerChange ==
  \A i \in IntentIds :
    /\ onConfirmed[i] <= toConfirmed[i]
    /\ (\A s \in 1..MaxTasks : tasks[s] = NoTask) => onConfirmed[i] = toConfirmed[i]

\* the calls processTx(tx, confirmations) the watcher can make now: with 0
\* from a hashtx notification, with the node's count from scanForPayments
FeedConfs(x) == IF chain[x] = -1 THEN {} ELSE {0, chain[x]}

\* C7: processTx called twice in sequence with the same transaction and
\* confirmations leaves the observations and the intents as one call leaves
\* them, and the calls together fire onProcessing and onConfirmed at most once
\* per intent.
C7_ProcessTxIdempotent ==
  \A x \in TxIds : \A c \in FeedConfs(x) :
    LET w1 == Run(World, processTx(x, c))
        w2 == Run(w1, processTx(x, c))
    IN /\ w2.observations = w1.observations
       /\ w2.intents = w1.intents
       /\ \A i \in IntentIds :
            /\ w2.onProcessing[i] <= onProcessing[i] + 1
            /\ w2.onConfirmed[i] <= onConfirmed[i] + 1

\* intent i is pending and unexpired, its address a is watched for it, and
\* output n of transaction x pays a and is not recorded yet
FreshFor(i, x, n) ==
  LET a == intents[i].addressId IN
  /\ intents[i].status = "pending" /\ ~intents[i].pastExpiry
  /\ a # 0
  /\ addressOf(World, a) \in watchedAddresses
  /\ addressToIntentMap[addressOf(World, a)] = i
  /\ n \in 1..Len(TxVout(x)) /\ TxVout(x)[n].address = addressOf(World, a)
  /\ ObsOn(World, a) = {}

\* C8: for a pending, unexpired, watched intent with requiredConfs = 1, feeding
\* an output that pays it with confirmations 0 and then 1 gives the statuses
\* pending -> processing -> confirmed, onProcessing once, then onConfirmed once.
C8_MempoolThenConfirm ==
  \A i \in IntentIds : \A x \in TxIds : \A n \in 1..Len(TxVout(x)) :
    (intents[i].requiredConfs = 1 /\ FreshFor(i, x, n) /\ chain[x] = 0) =>
      LET w1 == Run(World, processTx(x, 0))
          w2 == Run(w1, processTx(x, 1))
      IN /\ w1.intents[i].status = "processing"
         /\ w1.onProcessing[i] = onProcessing[i] + 1
         /\ w1.onConfirmed[i] = onConfirmed[i]
         /\ w2.intents[i].status = "confirmed"
         /\ w2.onProcessing[i] = w1.onProcessing[i]
         /\ w2.onConfirmed[i] = onConfirmed[i] + 1

\* intent i has status processing at some await of handler t run from world w
RECURSIVE EverProcessing(_, _, _)
EverProcessing(w, t, i) ==
  \/ w.intents[i].status = "processing"
  \/ /\ t.pc # "done"
     /\ LET r == Step(w, t) IN EverProcessing(r.w, r.t, i)

\* C9: for a pending, unexpired, watched intent with no observation yet,
\* processTx fed a transaction that pays its address with confirmations >=
\* requiredConfs moves the intent from pending to confirmed without passing
\* through processing, and onConfirmed fires exactly once.
C9_DirectConfirm ==
  \A i \in IntentIds : \A x \in TxIds : \A n \in 1..Len(TxVout(x)) :
    \A c \in FeedConfs(x) :
      (FreshFor(i, x, n) /\ c >= intents[i].requiredConfs) =>
        LET w1 == Run(World, processTx(x, c)) IN
        /\ w1.intents[i].status = "confirmed"
        /\ w1.intents[i].confirmedAt
        /\ ~EverProcessing(World, processTx(x, c), i)
        /\ w1.onProcessing[i] = onProcessing[i]
        /\ w1.onConfirmed[i] = onConfirmed[i] + 1

\* C10: no two intents have the same deposit address, and the address row an
\* intent points to is assigned to that intent.
C10_OneIntentPerAddress ==
  \A i \in IntentIds :
    intents[i].addressId # 0 =>
      /\ \A j \in IntentIds \ {i} : intents[j].addressId # intents[i].addressId
      /\ addresses[intents[i].addressId] = i

\* C11: in every state another operation can observe, address row k carries
\* intentId X exactly when intent X carries addressId k.
C11_AssignmentBidirectional ==
  \A k \in 1..Len(addresses) : \A X \in IntentIds :
    addresses[k] = X <=> intents[X].addressId = k

\* C12: after N sequential ensureAssigned calls for N distinct intents from an
\* empty address table there are N address rows, all assigned, and the k-th
\* row created carries derivationIndex k-1.
C12_GapFreeIndices ==
  LET N == Cardinality({i \in IntentIds : intents[i].addressId # 0}) IN
  /\ Len(derivationIndex) = N
  /\ \A k \in 1..N : derivationIndex[k] = k - 1 /\ addresses[k] # 0

\* every intent has been given an address
C12_Witness ==
  /\ Len(derivationIndex) = NumIntents
  /\ \A i \in IntentIds : intents[i].addressId # 0

\* the tables of world w
StorageOf(w) ==
  << w.intents, w.addresses, w.derivationIndex, w.observations, w.tokens >>

\* C13: ensureAssigned on an intent that has an address returns the address of
\* that row and leaves every table as it was, so that any number of repeated
\* calls leaves storage as the first call left it.
C13_EnsureAssignedIdempotent ==
  \A i \in IntentIds :
    intents[i].addressId # 0 =>
      LET w1 == Run(World, ensureAssigned(i))
          w2 == Run([w1 EXCEPT !.returned = 0], ensureAssigned(i))
      IN /\ w1.returned = addressOf(World, intents[i].addressId)
         /\ StorageOf(w1) = StorageOf(World)
         /\ w2.returned = w1.returned
         /\ StorageOf(w2) = StorageOf(World)

\* both intents have their addresses and a repeated call for the second
\* returns the second address
C13_Witness ==
  /\ \A i \in IntentIds : intents[i].addressId # 0
  /\ Run(World, ensureAssigned(NumIntents)).returned =
       addressOf(World, intents[NumIntents].addressId)
  /\ Len(addresses) = NumIntents

\* C14: ensureAssigned on an intent whose status is neither pending nor
\* processing fails, returning no address, and assigns no address to it.
C14_EnsureAssignedNeedsOpenIntent ==
  \A i \in IntentIds :
    (IntentExists(World, i) /\ intents[i].status \notin {"pending", "processing"}) =>
      LET w1 == Run(World, ensureAssigned(i))
      IN /\ w1.returned = 0
         /\ w1.intents[i].addressId = intents[i].addressId
         /\ w1.addresses = addresses

MintedExp == NowSeconds(minted.at) + minted.ttlSeconds

\* C16: verifying the token created from {intentId, nonce}, secret and
\* ttl > 0 with that same secret, at any time before exp = iat + ttl, returns
\* a payload with the same intentId and nonce.
C16_TokenRoundTrip ==
  (/\ verified # NoVerify
   /\ verified.secret = minted.secret
   /\ NowSeconds(verified.at) < MintedExp)
    => /\ verified.payload.intentId = minted.intentId
       /\ verified.payload.nonce = minted.nonce
       /\ verified.payload.iat = NowSeconds(minted.at)
       /\ verified.payload.exp = MintedExp

\* a token verified with its own secret in the last second before exp, later
\* than the second it was created in
C16_Witness ==
  /\ verified # NoVerify
  /\ verified.secret = minted.secret
  /\ NowSeconds(verified.at) = MintedExp - 1
  /\ NowSeconds(verified.at) > NowSeconds(minted.at)
  /\ verified.payload.intentId = minted.intentId
  /\ verified.payload.nonce = minted.nonce

C18_RejectedFromExp ==
  (/\ verified # NoVerify
   /\ verified.secret = minted.secret
   /\ NowSeconds(verified.at) >= MintedExp)
    => verified.payload = NoPayload

\* exp of the payload in the token of row k
TokenExp(k) == parse(split(tokens[k].token)[1]).exp

C20_ConsumedAtSet ==
  \A k \in 1..Len(tokens) : tokens[k].consumed => tokens[k].consumedAt # -1

\* the requests of GET /pay/:token whose verifyMagicLink throws
FailedRedemptions ==
  {token \in RequestTokens : Run(World, verifyMagicLink(token)).error # "none"}

\* C21: every GET /pay/:token whose redemption fails is answered with the
\* same message and the same status, whichever check of verifyMagicLink
\* failed (signature, token row, expiry).
C21_FailuresAnsweredAlike ==
  \A a, b \in FailedRedemptions :
    HandlerGetPay(World, a).response = HandlerGetPay(World, b).response

\* C29: a GET /pay/:token whose redemption fails is answered with a status
\* from 400 to 499, never with 500.
C29_FailedRedemptionIs4xx ==
  \A token \in FailedRedemptions :
    HandlerGetPay(World, token).response.status \in 400..499

\* C22: an onExpired callback that throws is caught and logged and the sweep
\* goes on with its remaining intents, so that after an expireStaleIntents
\* call no intent is left pending with its expiresAt in the past.
C22_SweepOutlivesThrow ==
  LET w == Run(World, expireStaleIntents) IN
  \A i \in IntentIds : ~(w.intents[i].status = "pending" /\ w.intents[i].pastExpiry)

\* intent i was confirmed and a reorg has put it back to processing
BackToProcessing(i) ==
  /\ intents[i].status = "processing"
  /\ ~intents[i].confirmedAt
  /\ onReorg[i] > 0
  /\ \A s \in 1..MaxTasks : tasks[s] = NoTask

\* C23: once a reorg has put an intent back to processing, a transaction
\* that pays its address and is handed to processTx with confirmations >=
\* requiredConfs leaves the intent confirmed again, with onConfirmed fired
\* once more.
C23_ReconfirmedAfterReorg ==
  \A i \in IntentIds, txid \in TxIds :
    (/\ BackToProcessing(i)
     /\ chain[txid] >= requiredConfs /\ chain[txid] > 0
     /\ \E n \in 1..Len(TxVout(txid)) : TxVout(txid)[n].address = addressOf(World, intents[i].addressId))
    => LET w == Run(World, processTx(txid, chain[txid])) IN
         /\ w.intents[i].status = "confirmed"
         /\ w.onConfirmed[i] = onConfirmed[i] + 1

C28_SingleOutputPays ==
  paymentStatus.result.txid # 0 =>
    \E k \in 1..Len(paymentStatus.txs) :
      \E n \in 1..Len(paymentStatus.txs[k].vout) :
        /\ paymentStatus.txs[k].vout[n].address = paymentStatus.address
        /\ paymentStatus.txs[k].vout[n].value >= paymentStatus.expectedAmount

\* the characters of text before its first "&" (all of it if there is none)
BeforeAmp(text) ==
  LET amps == {k \in 1..Len(text) : text[k] = "&"} IN
  IF amps = {} THEN text
  ELSE SubSeq(text, 1, (CHOOSE k \in amps : \A j \in amps : k <= j) - 1)

\* the number a sequence of digits writes
RECURSIVE ValueOf(_)
ValueOf(digits) ==
  IF digits = << >> THEN 0
  ELSE 10 * ValueOf(SubSeq(digits, 1, Len(digits) - 1))
         + (CHOOSE d \in 0..9 : Digit(d) = digits[Len(digits)])

\* C30: createBIP21URI(address, amountSats, label, message) returns
\* bitcoin:<address>?amount=<btc8> followed by &label=<encoded label> if a
\* label is given and &message=<encoded message> if a message is given; btc8
\* is digits, a point and exactly eight digits, and read as a number of
\* 10^-8 units it is amountSats.
C30_Bip21Format ==
  uri # NoUri =>
    LET head == << "b", "i", "t", "c", "o", "i", "n", ":" >> \o uri.address
                  \o << "?", "a", "m", "o", "u", "n", "t", "=" >>
        rest == SubSeq(uri.text, Len(head) + 1, Len(uri.text))
        btc8 == BeforeAmp(rest)
        params == SubSeq(rest, Len(btc8) + 1, Len(rest))
        point == Len(btc8) - Decimals
        digits == SubSeq(btc8, 1, point - 1) \o SubSeq(btc8, point + 1, Len(btc8))
    IN /\ SubSeq(uri.text, 1, Len(head)) = head
       /\ point > 1
       /\ btc8[point] = "."
       /\ \A k \in 1..Len(digits) : \E d \in 0..9 : digits[k] = Digit(d)
       /\ ValueOf(digits) = uri.amountSats
       /\ params =
            (IF uri.label # << >>
             THEN << "&", "l", "a", "b", "e", "l", "=" >> \o encodeURIComponent(uri.label)
             ELSE << >>)
            \o (IF uri.message # << >>
                THEN << "&", "m", "e", "s", "s", "a", "g", "e", "=" >>
                       \o encodeURIComponent(uri.message)
                ELSE << >>)

\* C30 witness: createBIP21URI("bc1q", 100000, "a b") returned
\* bitcoin:bc1q?amount=0.00100000&label=a%20b
C30_Witness ==
  /\ uri.amountSats = 100000
  /\ uri.text =
       << "b", "i", "t", "c", "o", "i", "n", ":", "b", "c", "1", "q",
          "?", "a", "m", "o", "u", "n", "t", "=",
          "0", ".", "0", "0", "1", "0", "0", "0", "0", "0",
          "&", "l", "a", "b", "e", "l", "=", "a", "%", "2", "0", "b" >>

\* the status changes the Inngest path may store
InngestEdges ==
  {<< "none", "pending" >>, << "pending", "processing" >>,
   << "processing", "confirmed" >>, << "pending", "confirmed" >>,
   << "pending", "expired" >>}

\* C25: whatever the order in which the Inngest events are delivered, a
\* payment's stored status only moves pending -> processing -> confirmed,
\* pending -> confirmed or pending -> expired: a payment that is processing
\* or confirmed is never set to expired, a confirmed one never set back to
\* processing.
C25_InngestStatusForward ==
  [][\A i \in IntentIds :
       intents'[i].status # intents[i].status =>
         << intents[i].status, intents'[i].status >> \in InngestEdges]_vars

\* C26: for one payment, bitcoin/payment.confirmed is sent at most once.
C26_ConfirmedEmittedOnce ==
  \A i \in IntentIds : emittedConfirmed[i] <= 1

\* C27: with the Inngest functions running, an intent that is pending with
\* its expiresAt in the past is eventually stored as expired, with or
\* without a deposit address.
C27_StalePendingExpires ==
  \A i \in IntentIds :
    (intents[i].status = "pending" /\ intents[i].pastExpiry)
      ~> (intents[i].status = "expired")

C32_OneTickInProgress ==
  Cardinality({s \in 1..MaxTasks : tasks[s].kind = "checkConfirmations"}) <= 1

\* C33: an intent created with requiredConfs = k is never set to confirmed
\* while its observation has fewer than k confirmations: on the step that
\* makes it confirmed, an observation on its address has at least k.
C33_OwnRequiredConfs ==
  [][\A i \in IntentIds :
       (intents'[i].status = "confirmed" /\ intents[i].status # "confirmed")
         => \E k \in 1..Len(observations') :
              /\ observations'[k].addressId = intents'[i].addressId
              /\ observations'[k].confirmations >= intents'[i].requiredConfs]_vars

\* C34: a processTx call on a transaction with outputs to several watched
\* addresses records or updates every one of them: after the call each
\* watched output has an observation with the confirmations of the call,
\* whether or not another output had an observation before.
C34_EveryOutputProcessed ==
  \A x \in TxIds : \A c \in FeedConfs(x) :
    LET w1 == Run(World, processTx(x, c)) IN
    \A n \in 1..Len(TxVout(x)) :
      LET address == TxVout(x)[n].address IN
      (address \in watchedAddresses /\ addressToIntentMap[address] # 0
         /\ getDepositAddressByAddress(World, address) # 0)
        => /\ getTxObservationByTxidVout(w1, x, n) # 0
           /\ w1.observations[getTxObservationByTxidVout(w1, x, n)].confirmations = c

\* C35: while the watcher is running, the deposit address of every pending
\* or processing intent is in the watched set, also when ensureAssigned
\* assigned it after start() and when a reorg moved the intent back to
\* processing.
C35_OpenIntentsWatched ==
  isRunning =>
    \A i \in IntentIds :
      (intents[i].status \in {"pending", "processing"} /\ intents[i].addressId # 0)
        => addressOf(World, intents[i].addressId) \in watchedAddresses

\* transaction x pays the address of intent i, which the watcher watches
PaidBy(i, x) ==
  /\ intents[i].addressId # 0
  /\ addressOf(World, intents[i].addressId) \in watchedAddresses
  /\ chain[x] >= 0
  /\ \E n \in 1..Len(TxVout(x)) :
       TxVout(x)[n].address = addressOf(World, intents[i].addressId)

\* C36: when the RPC fetch of a transaction failed while its hashtx
\* notification was handled, a later tick still detects the payment: once
\* the node is reachable again (and stays so), the intent the transaction
\* pays eventually leaves pending.
C36_MissedTxDetectedLater ==
  \A i \in IntentIds : \A x \in TxIds :
    (x \in failedTx /\ PaidBy(i, x) /\ isRunning
       /\ rpc.up /\ rpc.outages = MaxOutages)
      ~> intents[i].status # "pending"

\* C37: the stored confirmations of an observation never decrease, except
\* when a reorg (the node no longer knows the transaction) resets them to 0;
\* a repeated hashtx notification or a late mempool event does not lower them.
C37_ConfirmationsMonotone ==
  [][\A k \in 1..Len(observations) :
       observations'[k].confirmations < observations[k].confirmations
         => /\ chain[observations[k].txid] = -1
            /\ observations'[k].confirmations = 0]_vars

\* C38: a first sighting with 0 < confirmations < requiredConfs of an output
\* that pays a pending, watched intent creates the observation, takes the
\* intent to processing and fires onProcessing once, as one with 0 does.
C38_EarlySightingProcessing ==
  \A i \in IntentIds : \A x \in TxIds : \A n \in 1..Len(TxVout(x)) :
    \A c \in FeedConfs(x) :
      (/\ FreshFor(i, x, n)
       /\ \A m \in 1..Len(TxVout(x)) : getTxObservationByTxidVout(World, x, m) = 0
       /\ 0 < c /\ c < requiredConfs /\ c < intents[i].requiredConfs) =>
        LET w1 == Run(World, processTx(x, c)) IN
        /\ getTxObservationByTxidVout(w1, x, n) # 0
        /\ w1.intents[i].status = "processing"
        /\ w1.onProcessing[i] = onProcessing[i] + 1

\* C39: once stop() has returned, the watcher makes no further storage
\* update and fires no further callback, also when a checkConfirmations tick
\* or a ZMQ handler was in flight when stop() was called.
C39_QuietAfterStop ==
  [][~isRunning =>
       /\ observations' = observations
       /\ intents' = intents
       /\ onProcessing' = onProcessing
       /\ onConfirmed' = onConfirmed
       /\ onReorg' = onReorg]_vars

\* the renewal payment intents of subscription s
RenewalIntents(s) == {i \in IntentIds : intentSubscription[i] = s}

\* C40: for a subscription whose plan has maxCycles = m, the renewal job
\* creates at most m renewal payment intents; it never renews beyond m cycles.
C40_RenewalsWithinMaxCycles ==
  \A s \in 1..Len(subscriptions) :
    Plans[subscriptions[s].planId].maxCycles # 0 =>
      Cardinality(RenewalIntents(s)) <= Plans[subscriptions[s].planId].maxCycles

====
